---- MODULE Spec2Model ----
(***************************************************************************)
(* A model of tensorflow/python/distribute/values.py: distributed values,  *)
(* mirrored and sync-on-read variables, their checkpoint adapters and the   *)
(* regroup / select algorithms.                                             *)
(*                                                                          *)
(* Numbers: an element value is an integer.  A floating dtype is idealised  *)
(* as exact arithmetic on the integer grid: a floating division whose       *)
(* quotient is not an integer is outside the grid and the step that needs   *)
(* it is not taken (Representable).  An integer dtype divides as the code   *)
(* does: true division, then a cast that truncates toward zero.             *)
(***************************************************************************)
EXTENDS Integers, Sequences, FiniteSets, TLC

\* ------------------------------------------------------------------ bounds
MaxReplicas == 3
MaxVal == 1
MaxDepth == 3
MaxStrategies == 3

\* The values an element may take.  The elements of a mirrored variable move
\* together, and their range leaves room for the sum one merge adds.
Values == (0 - 1)..MaxVal
MirroredValues == (0 - 1)..(MaxVal + MaxReplicas)
ArgValues == {1, 2}

\* ------------------------------------------------------- program constants
Aggregations == {"NONE", "SUM", "MEAN", "ONLY_FIRST_REPLICA"}
Dtypes == {"float32", "int32"}
AssignOps == {"assign", "assign_add", "assign_sub"}
NoReplicaId == 0 - 1
NoValue == <<"none", 0>>
NoArg == [obj |-> 0, val |-> 0]
NoOp == "none"
\* result.rid is the replica that made the call (NoReplicaId: no replica did)
NoResult == [op |-> "none", status |-> "ok", value |-> NoValue, rid |-> NoReplicaId]

VARIABLES
  num_replicas,       \* len(self._values)
  var_cls,            \* the class of the variable under test
  aggregation,        \* self._aggregation
  dtype,              \* self.dtype
  values,             \* self._values: replica id -> the element's current value
  strategy_scope,     \* the strategy whose scope is active: "none", "own", "other"
  in_replica,         \* TRUE inside call_for_each_replica (replica context)
  update_replica_id,  \* distribute_lib.get_update_replica_id()
  merge_op,           \* the assign function of the merge_call in progress
  merge_args,         \* replica id -> the value it passed to merge_call
  saved,              \* the tensor a checkpoint holds for the variable
  result,             \* what the last call returned or raised
  tpu_context,        \* TRUE inside tpu.rewrite(): _enclosing_tpu_context() is not None
  rg_values,          \* regroup's values: one nest per replica
  wrap_class,         \* regroup's wrap_class
  regrouped,          \* what regroup / update_regroup returned or raised
  selected,           \* what select_replica / select_replica_mirrored returned or raised
  completed,          \* the ids of the update / initializer ops that have run to completion
  observed,           \* the returned results seen ready: <<path of the leaf, element>>
  fn_args,            \* the arguments of the last call of a module-level function
  fn_result           \* what that call returned or raised

varVars == <<num_replicas, var_cls, aggregation, dtype, values, strategy_scope,
             in_replica, update_replica_id, merge_op, merge_args, saved, result,
             tpu_context>>

structVars == <<rg_values, wrap_class, regrouped, selected, completed, observed>>

callVars == <<fn_args, fn_result>>

vars == <<varVars, structVars, callVars>>

Replicas == 0..(num_replicas - 1)

\* ------------------------------------------------------------ arithmetic
RECURSIVE SumTo(_, _)
SumTo(f, k) == IF k < 0 THEN 0 ELSE f[k] + SumTo(f, k - 1)

SumOf(f, n) == SumTo(f, n - 1)

IsFloating(dt) == dt = "float32"

TruncDiv(t, n) == IF t >= 0 THEN t \div n ELSE 0 - ((0 - t) \div n)

\* tensor / n is a true division; the floating quotient is exact on the grid.
Representable(t, n, dt) == IsFloating(dt) => t % n = 0

\* math_ops.cast(tensor / n, dtype)
DivideAndCast(t, n, dt) == IF IsFloating(dt) THEN t \div n ELSE TruncDiv(t, n)

ValueRange(cls) == IF cls = "MirroredVariable" THEN MirroredValues ELSE Values

AllInRange(cls, f) == \A i \in DOMAIN f : f[i] \in ValueRange(cls)

\* ------------------------------------------------------------- contexts
\* replica_context: the calling replica's id in replica context, else NoReplicaId.
get_current_replica_id_as_int(replica_context, update_id) ==
  IF replica_context # NoReplicaId THEN replica_context ELSE update_id

\* (mutant) the active strategy is not compared with the variable's
enter_or_assert_strategy_unasserted(scope) == "own"

\* The scope the body of "with _enter_or_assert_strategy(strategy)" runs in, or
\* the error it raises.
enter_or_assert_strategy(scope) ==
  IF scope = "none" THEN "own"
  ELSE IF scope = "own" THEN "own" ELSE "RuntimeError"

\* The strategy scopes entered and not yet left, innermost last
ScopeStack(scope) == IF scope = "none" THEN <<>> ELSE <<scope>>
CurrentScope(stack) == IF stack = <<>> THEN "none" ELSE stack[Len(stack)]
scope_enter(stack, s) == Append(stack, s)
scope_exit(stack) == SubSeq(stack, 1, Len(stack) - 1)
Raises(status) == status \notin {"ok", "merge_call"}

\* (mutant) a scope entered by the guard stays open when the body raises
with_enter_or_assert_strategy_open_on_error(scope, status) ==
  LET stack == ScopeStack(scope)
  IN IF stack = <<>> /\ Raises(status)
     THEN CurrentScope(scope_enter(stack, "own"))
     ELSE scope

\* The scope that is active after "with _enter_or_assert_strategy(strategy):
\* body", status being how the body ended.  With no strategy the body runs in
\* "with strategy.scope()", whose exit runs when the body returns and when the
\* exception of the body is thrown into the generator at its yield; with a
\* strategy the guard only asserts.
with_enter_or_assert_strategy(scope, status) ==
  LET stack == ScopeStack(scope)
  IN IF stack = <<>>
     THEN CurrentScope(scope_exit(scope_enter(stack, "own")))
     ELSE CurrentScope(stack)

\* distribution_strategy_context.in_cross_replica_context() inside the body: a
\* scope entered by the guard starts in cross-replica context.
in_cross_replica_context(scope, replica_context) ==
  scope = "none" \/ replica_context = NoReplicaId

\* ------------------------------------------------- element primitives
\* var.assign / var.assign_add / var.assign_sub on one physical element.
assign_on_device(op, old, tensor) ==
  CASE op = "assign" -> tensor
    [] op = "assign_add" -> old + tensor
    [] op = "assign_sub" -> old - tensor

\* ------------------------------------------------- strategy collaborator
\* strategy.extended.update(var, fn, args): fn runs on every element.
StrategyUpdate(vals, op, v) ==
  [i \in DOMAIN vals |-> assign_on_device(op, vals[i], v)]

\* strategy.extended.reduce_to / strategy.reduce of one value per replica.
StrategyReduce(agg, xs, n, dt) ==
  IF agg = "SUM" THEN SumOf(xs, n) ELSE DivideAndCast(SumOf(xs, n), n, dt)

StrategyReduceDefined(agg, xs, n, dt) ==
  /\ agg \in {"SUM", "MEAN"}
  /\ agg = "MEAN" => Representable(SumOf(xs, n), n, dt)

\* merge_call regroups the replicas' arguments: one object passed by every
\* replica stays itself, anything else becomes a PerReplica.
IsPerReplicaArg(args, n) == \E i \in 0..(n - 1) : args[i].obj # args[0].obj

ArgVals(args, n) == [i \in 0..(n - 1) |-> args[i].val]

\* ------------------------------------------------------ DistributedValues
Elem(i) == <<"elem", i>>
Tensor(x) == <<"tensor", x>>
Outcome(st, vals, ret) == [status |-> st, values |-> vals, value |-> ret]

IsDistributedVariable(cls) == cls \in {"MirroredVariable", "SyncOnReadVariable", "TPUMirroredVariable", "TPUSyncOnReadVariable"}
IsMirrored(cls) == cls \in {"Mirrored", "MirroredVariable", "TPUMirroredVariable"}
IsDistributedValues(cls) == cls \in {"PerReplica", "Mirrored"} \/ IsDistributedVariable(cls)

\* DistributedValues._get_closest: the index of the element it returns.  Element
\* i lives on device i; a device outside 0..n-1 matches no element.
get_closest(n, replica_context, update_id, current_device) ==
  LET replica_id == get_current_replica_id_as_int(replica_context, update_id)
  IN IF replica_id = NoReplicaId
     THEN IF current_device \in 0..(n - 1) THEN current_device ELSE 0
     ELSE replica_id

\* (mutant) the reduction is left out: the primary element is returned
SyncOnReadVariable_get_cross_replica_no_reduce(vals, n, agg, dt, scope) ==
  Outcome("ok", vals, Tensor(vals[0]))

\* (mutant) ONLY_FIRST_REPLICA is not special-cased: every read goes to the reduction
SyncOnReadVariable_get_cross_replica_always_reduced(vals, n, agg, dt, scope) ==
  IF enter_or_assert_strategy(scope) = "RuntimeError"
  THEN Outcome("RuntimeError", vals, NoValue)
  ELSE IF agg \in {"NONE", "ONLY_FIRST_REPLICA"} THEN Outcome("ValueError", vals, NoValue)
  ELSE Outcome("ok", vals, Tensor(StrategyReduce(agg, vals, n, dt)))

\* SyncOnReadVariable._get_cross_replica
SyncOnReadVariable_get_cross_replica(vals, n, agg, dt, scope) ==
  IF agg = "ONLY_FIRST_REPLICA" THEN Outcome("ok", vals, Elem(0))
  ELSE IF enter_or_assert_strategy(scope) = "RuntimeError"
       THEN Outcome("RuntimeError", vals, NoValue)
  ELSE IF agg = "NONE" THEN Outcome("ValueError", vals, NoValue)
  ELSE Outcome("ok", vals, Tensor(StrategyReduce(agg, vals, n, dt)))

\* (mutant) no class overrides DistributedValues._get_cross_replica
get_cross_replica_not_overridden(cls, vals, n, agg, dt, scope, current_device) ==
  Outcome("NotImplementedError", vals, NoValue)

\* _get_cross_replica of each class
get_cross_replica(cls, vals, n, agg, dt, scope, current_device) ==
  CASE cls = "PerReplica" -> Outcome("NotImplementedError", vals, NoValue)
    [] cls = "Mirrored" ->
         Outcome("ok", vals, Elem(get_closest(n, NoReplicaId, NoReplicaId, current_device)))
    [] cls = "MirroredVariable" ->
         Outcome("ok", vals,
                 Tensor(vals[get_closest(n, NoReplicaId, NoReplicaId, current_device)]))
    [] cls = "SyncOnReadVariable" ->
         SyncOnReadVariable_get_cross_replica(vals, n, agg, dt, scope)

\* (mutant) the replica id is ignored: the primary is returned
DistributedValues_get_primary(cls, vals, n, agg, dt, scope, replica_context, update_id, device) ==
  LET replica_id == get_current_replica_id_as_int(replica_context, update_id)
  IN IF replica_id = NoReplicaId
     THEN get_cross_replica(cls, vals, n, agg, dt, scope, device)
     ELSE Outcome("ok", vals, Elem(0))

\* DistributedValues.get
DistributedValues_get(cls, vals, n, agg, dt, scope, replica_context, update_id, device) ==
  LET replica_id == get_current_replica_id_as_int(replica_context, update_id)
  IN IF replica_id = NoReplicaId
     THEN get_cross_replica(cls, vals, n, agg, dt, scope, device)
     ELSE Outcome("ok", vals, Elem(replica_id))

\* ------------------------------------------------------- MirroredVariable
\* (mutant) every aggregation broadcasts the first replica's value
apply_aggregation_first_only(args, n, agg, dt) == args[0].val

\* (mutant) ONLY_FIRST_REPLICA takes the last replica's value
apply_aggregation_last_replica(args, n, agg, dt) ==
  IF agg = "ONLY_FIRST_REPLICA" THEN args[n - 1].val
  ELSE StrategyReduce(agg, ArgVals(args, n), n, dt)

\* _apply_aggregation
apply_aggregation(args, n, agg, dt) ==
  IF agg = "ONLY_FIRST_REPLICA" THEN args[0].val
  ELSE StrategyReduce(agg, ArgVals(args, n), n, dt)

\* (mutant) the combined value reaches the primary element only
merge_fn_primary_only(op, args, vals, n, agg, dt) ==
  Outcome("ok", [vals EXCEPT ![0] = assign_on_device(op, @, apply_aggregation(args, n, agg, dt))], NoValue)

\* (mutant) MEAN is accepted for every dtype and argument
merge_fn_mean_unchecked(op, args, vals, n, agg, dt) ==
  Outcome("ok", StrategyUpdate(vals, op, apply_aggregation(args, n, agg, dt)), NoValue)

\* merge_fn of MirroredVariable._assign_func, run by merge_call once every
\* replica has passed its value
merge_fn(op, args, vals, n, agg, dt) ==
  IF agg = "MEAN" /\ ~IsFloating(dt) /\ IsPerReplicaArg(args, n)
  THEN Outcome("ValueError", vals, NoValue)
  ELSE Outcome("ok", StrategyUpdate(vals, op, apply_aggregation(args, n, agg, dt)),
               NoValue)

merge_fn_defined(args, n, agg, dt) ==
  \/ agg = "ONLY_FIRST_REPLICA"
  \/ agg = "MEAN" /\ ~IsFloating(dt) /\ IsPerReplicaArg(args, n)
  \/ StrategyReduceDefined(agg, ArgVals(args, n), n, dt)

\* (mutant) the cross-replica call writes the primary element only
MirroredVariable_assign_func_primary_only(op, arg, vals, agg, scope, replica_context, update_id) ==
  IF enter_or_assert_strategy(scope) = "RuntimeError"
  THEN Outcome("RuntimeError", vals, NoValue)
  ELSE IF in_cross_replica_context(scope, replica_context)
       THEN Outcome("ok", [vals EXCEPT ![0] = assign_on_device(op, @, arg.val)], NoValue)
       ELSE IF agg = "NONE"
            THEN Outcome("ValueError", vals, NoValue)
            ELSE Outcome("merge_call", vals, NoValue)

\* (mutant) the aggregation of a replica-context call is not looked at
MirroredVariable_assign_func_no_aggregation_check(op, arg, vals, agg, scope, replica_context, update_id) ==
  IF enter_or_assert_strategy(scope) = "RuntimeError"
  THEN Outcome("RuntimeError", vals, NoValue)
  ELSE IF in_cross_replica_context(scope, replica_context)
       THEN IF update_id # NoReplicaId
            THEN Outcome("ok",
                         [vals EXCEPT ![update_id] = assign_on_device(op, @, arg.val)],
                         NoValue)
            ELSE Outcome("ok", StrategyUpdate(vals, op, arg.val), NoValue)
       ELSE Outcome("merge_call", vals, NoValue)

\* (mutant) the update replica id is not looked at
MirroredVariable_assign_func_no_update_branch(op, arg, vals, agg, scope, replica_context, update_id) ==
  IF enter_or_assert_strategy(scope) = "RuntimeError"
  THEN Outcome("RuntimeError", vals, NoValue)
  ELSE IF in_cross_replica_context(scope, replica_context)
       THEN Outcome("ok", StrategyUpdate(vals, op, arg.val), NoValue)
       ELSE IF agg = "NONE"
            THEN Outcome("ValueError", vals, NoValue)
            ELSE Outcome("merge_call", vals, NoValue)

\* MirroredVariable._assign_func; status "merge_call" is the call waiting in
\* the rendezvous with its argument handed to merge_call.
MirroredVariable_assign_func(op, arg, vals, agg, scope, replica_context, update_id) ==
  IF enter_or_assert_strategy(scope) = "RuntimeError"
  THEN Outcome("RuntimeError", vals, NoValue)
  ELSE IF in_cross_replica_context(scope, replica_context)
       THEN IF update_id # NoReplicaId
            THEN Outcome("ok",
                         [vals EXCEPT ![update_id] = assign_on_device(op, @, arg.val)],
                         NoValue)
            ELSE Outcome("ok", StrategyUpdate(vals, op, arg.val), NoValue)
       ELSE IF agg = "NONE"
            THEN Outcome("ValueError", vals, NoValue)
            ELSE Outcome("merge_call", vals, NoValue)

\* ----------------------------------------------------- SyncOnReadVariable
\* (mutant) the SUM check of the cross-replica branch is left out
SyncOnReadVariable_assign_sub_unchecked(arg, vals, agg, scope, replica_context) ==
  IF enter_or_assert_strategy(scope) = "RuntimeError"
  THEN Outcome("RuntimeError", vals, NoValue)
  ELSE IF in_cross_replica_context(scope, replica_context)
       THEN Outcome("ok",
                    [i \in DOMAIN vals |-> assign_on_device("assign_sub", vals[i], arg.val)],
                    NoValue)
       ELSE Outcome("ok",
                    [vals EXCEPT ![replica_context] = assign_on_device("assign_sub", @, arg.val)],
                    NoValue)

\* SyncOnReadVariable.assign_sub
SyncOnReadVariable_assign_sub(arg, vals, agg, scope, replica_context) ==
  IF enter_or_assert_strategy(scope) = "RuntimeError"
  THEN Outcome("RuntimeError", vals, NoValue)
  ELSE IF in_cross_replica_context(scope, replica_context)
       THEN IF agg = "SUM"
            THEN Outcome("ValueError", vals, NoValue)
            ELSE Outcome("ok",
                         [i \in DOMAIN vals |-> assign_on_device("assign_sub", vals[i], arg.val)],
                         NoValue)
       ELSE Outcome("ok",
                    [vals EXCEPT ![replica_context] = assign_on_device("assign_sub", @, arg.val)],
                    NoValue)

\* (mutant) the replica-context call writes every element
SyncOnReadVariable_assign_add_every_element(arg, vals, agg, scope, replica_context) ==
  IF enter_or_assert_strategy(scope) = "RuntimeError"
  THEN Outcome("RuntimeError", vals, NoValue)
  ELSE IF in_cross_replica_context(scope, replica_context) /\ agg = "SUM"
       THEN Outcome("ValueError", vals, NoValue)
       ELSE Outcome("ok",
                    [i \in DOMAIN vals |-> assign_on_device("assign_add", vals[i], arg.val)],
                    NoValue)

\* (mutant) the SUM check comes after the write to the first element
SyncOnReadVariable_assign_add_checked_after_write(arg, vals, agg, scope, replica_context) ==
  IF enter_or_assert_strategy(scope) = "RuntimeError"
  THEN Outcome("RuntimeError", vals, NoValue)
  ELSE IF in_cross_replica_context(scope, replica_context)
       THEN IF agg = "SUM"
            THEN Outcome("ValueError", [vals EXCEPT ![0] = assign_on_device("assign_add", @, arg.val)], NoValue)
            ELSE Outcome("ok",
                         [i \in DOMAIN vals |-> assign_on_device("assign_add", vals[i], arg.val)],
                         NoValue)
       ELSE Outcome("ok",
                    [vals EXCEPT ![replica_context] = assign_on_device("assign_add", @, arg.val)],
                    NoValue)

\* SyncOnReadVariable.assign_add
SyncOnReadVariable_assign_add(arg, vals, agg, scope, replica_context) ==
  IF enter_or_assert_strategy(scope) = "RuntimeError"
  THEN Outcome("RuntimeError", vals, NoValue)
  ELSE IF in_cross_replica_context(scope, replica_context)
       THEN IF agg = "SUM"
            THEN Outcome("ValueError", vals, NoValue)
            ELSE Outcome("ok",
                         [i \in DOMAIN vals |-> assign_on_device("assign_add", vals[i], arg.val)],
                         NoValue)
       ELSE Outcome("ok",
                    [vals EXCEPT ![replica_context] = assign_on_device("assign_add", @, arg.val)],
                    NoValue)

\* (mutant) the cross-replica assign divides under every aggregation
SyncOnReadVariable_assign_always_divided(arg, vals, n, agg, dt, scope, replica_context) ==
  IF enter_or_assert_strategy(scope) = "RuntimeError"
  THEN Outcome("RuntimeError", vals, NoValue)
  ELSE IF in_cross_replica_context(scope, replica_context)
       THEN Outcome("ok",
                    [i \in DOMAIN vals |-> assign_on_device("assign", vals[i], DivideAndCast(arg.val, n, dt))],
                    NoValue)
       ELSE Outcome("ok",
                    [vals EXCEPT ![replica_context] = assign_on_device("assign", @, arg.val)],
                    NoValue)

\* SyncOnReadVariable.assign
SyncOnReadVariable_assign(arg, vals, n, agg, dt, scope, replica_context) ==
  IF enter_or_assert_strategy(scope) = "RuntimeError"
  THEN Outcome("RuntimeError", vals, NoValue)
  ELSE IF in_cross_replica_context(scope, replica_context)
       THEN LET tensor == IF agg = "SUM" THEN DivideAndCast(arg.val, n, dt) ELSE arg.val
            IN Outcome("ok",
                       [i \in DOMAIN vals |-> assign_on_device("assign", vals[i], tensor)],
                       NoValue)
       ELSE Outcome("ok",
                    [vals EXCEPT ![replica_context] = assign_on_device("assign", @, arg.val)],
                    NoValue)

SyncOnReadVariable_assign_defined(arg, n, agg, dt, scope, replica_context) ==
  (/\ enter_or_assert_strategy(scope) # "RuntimeError"
   /\ in_cross_replica_context(scope, replica_context)
   /\ agg = "SUM") => Representable(arg.val, n, dt)

\* ------------------------------------------------------------------ handle
\* The handle of element i, or the replicated handle of the TPU context
Handle(i) == <<"handle", i>>
ReplicatedHandle == <<"replicated_handle", 0>>

\* (mutant) the primary's handle when no replica id is active
DistributedVariable_handle_of_primary(replica_context, update_id) ==
  LET replica_id == get_current_replica_id_as_int(replica_context, update_id)
  IN [status |-> "ok", value |-> Handle(IF replica_id = NoReplicaId THEN 0 ELSE replica_id)]

\* DistributedVariable.handle
DistributedVariable_handle(replica_context, update_id) ==
  LET replica_id == get_current_replica_id_as_int(replica_context, update_id)
  IN IF replica_id = NoReplicaId
     THEN [status |-> "ValueError", value |-> NoValue]
     ELSE [status |-> "ok", value |-> Handle(replica_id)]

\* TPUVariableMixin.handle
TPUVariableMixin_handle(n, replica_context, update_id, current_device, tpu) ==
  IF ~tpu
  THEN [status |-> "ok", value |-> Handle(get_closest(n, replica_context, update_id, current_device))]
  ELSE [status |-> "ok", value |-> ReplicatedHandle]

IsTPUVariable(cls) == cls \in {"TPUMirroredVariable", "TPUSyncOnReadVariable"}

\* ------------------------------------- TPU variants, AggregatingVariable
\* a raw assign op on the replicated handle that TPUVariableMixin.handle
\* returns inside tpu.rewrite(): the replicated computation writes every
\* replica's element
ReplicatedHandleAssign(vals, op, v) == [i \in DOMAIN vals |-> assign_on_device(op, vals[i], v)]

\* TPUMirroredVariable._assign_func
TPUMirroredVariable_assign_func(op, arg, vals, agg, scope, replica_context, update_id, tpu) ==
  IF enter_or_assert_strategy(scope) = "RuntimeError"
  THEN Outcome("RuntimeError", vals, NoValue)
  ELSE IF in_cross_replica_context(scope, replica_context) /\ tpu
       THEN Outcome("ok", StrategyUpdate(vals, op, arg.val), NoValue)
       ELSE MirroredVariable_assign_func(op, arg, vals, agg, scope, replica_context, update_id)

\* TPUSyncOnReadVariable.assign_sub / assign_add / assign
TPUSyncOnReadVariable_assign(op, arg, vals, n, agg, dt, scope, replica_context, tpu) ==
  IF ~tpu
  THEN CASE op = "assign" -> SyncOnReadVariable_assign(arg, vals, n, agg, dt, scope, replica_context)
         [] op = "assign_add" -> SyncOnReadVariable_assign_add(arg, vals, agg, scope, replica_context)
         [] op = "assign_sub" -> SyncOnReadVariable_assign_sub(arg, vals, agg, scope, replica_context)
  ELSE Outcome("ok", ReplicatedHandleAssign(vals, op, arg.val), NoValue)

\* AggregatingVariable._assign_func: vals holds the one wrapped variable _v
AggregatingVariable_assign_func(op, arg, vals, agg, scope, replica_context, update_id) ==
  IF enter_or_assert_strategy(scope) = "RuntimeError"
  THEN Outcome("RuntimeError", vals, NoValue)
  ELSE IF in_cross_replica_context(scope, replica_context)
       THEN IF update_id # NoReplicaId
            THEN Outcome("ok", [vals EXCEPT ![0] = assign_on_device(op, @, arg.val)], NoValue)
            ELSE Outcome("ok", StrategyUpdate(vals, op, arg.val), NoValue)
       ELSE IF agg = "NONE"
            THEN Outcome("ValueError", vals, NoValue)
            ELSE Outcome("merge_call", vals, NoValue)

\* (mutant) the merge of an AggregatingVariable checks MEAN as MirroredVariable's does
AggregatingVariable_merge_fn_mean_checked(op, args, vals, n, agg, dt) == merge_fn(op, args, vals, n, agg, dt)

\* merge_fn of AggregatingVariable._assign_func
AggregatingVariable_merge_fn(op, args, vals, n, agg, dt) ==
  Outcome("ok", StrategyUpdate(vals, op, apply_aggregation(args, n, agg, dt)), NoValue)

\* merge_fn of the class of var
Variable_merge_fn(cls, op, args, vals, n, agg, dt) ==
  IF cls = "AggregatingVariable"
  THEN AggregatingVariable_merge_fn(op, args, vals, n, agg, dt)
  ELSE merge_fn(op, args, vals, n, agg, dt)

Variable_merge_fn_defined(cls, args, n, agg, dt) ==
  IF cls = "AggregatingVariable"
  THEN agg = "ONLY_FIRST_REPLICA" \/ StrategyReduceDefined(agg, ArgVals(args, n), n, dt)
  ELSE merge_fn_defined(args, n, agg, dt)

\* var.assign / var.assign_add / var.assign_sub, by the class of var
Variable_assign(cls, op, arg, vals, n, agg, dt, scope, replica_context, update_id, tpu) ==
  CASE cls = "MirroredVariable" ->
         MirroredVariable_assign_func(op, arg, vals, agg, scope, replica_context, update_id)
    [] cls = "TPUMirroredVariable" ->
         TPUMirroredVariable_assign_func(op, arg, vals, agg, scope, replica_context, update_id, tpu)
    [] cls = "AggregatingVariable" ->
         AggregatingVariable_assign_func(op, arg, vals, agg, scope, replica_context, update_id)
    [] cls = "TPUSyncOnReadVariable" ->
         TPUSyncOnReadVariable_assign(op, arg, vals, n, agg, dt, scope, replica_context, tpu)
    [] cls = "SyncOnReadVariable" /\ op = "assign" ->
         SyncOnReadVariable_assign(arg, vals, n, agg, dt, scope, replica_context)
    [] cls = "SyncOnReadVariable" /\ op = "assign_add" ->
         SyncOnReadVariable_assign_add(arg, vals, agg, scope, replica_context)
    [] cls = "SyncOnReadVariable" /\ op = "assign_sub" ->
         SyncOnReadVariable_assign_sub(arg, vals, agg, scope, replica_context)

\* the quotient of a cross-replica SUM assign is on the grid
Variable_assign_defined(cls, op, arg, n, agg, dt, scope, replica_context, tpu) ==
  (op = "assign" /\ (cls = "SyncOnReadVariable" \/ (cls = "TPUSyncOnReadVariable" /\ ~tpu))) =>
     SyncOnReadVariable_assign_defined(arg, n, agg, dt, scope, replica_context)

\* ---------------------------------------------------------- is_initialized
\* The ops is_initialized builds.  The initializer op of element i has id i; an
\* element is initialized once its initializer has run.
NoName == ""
Names == {NoName, "is_initialized", "ready"}
VarIsInitializedOp(i) == [op |-> "VarIsInitializedOp", element |-> i]
LogicalAnd(x, y, name) == [op |-> "LogicalAnd", inputs |-> <<x, y>>, name |-> name]

\* session.run(op), given the initializer ops that have run
RECURSIVE Evaluate(_, _)
Evaluate(op, ran) ==
  IF op.op = "VarIsInitializedOp"
  THEN op.element \in ran
  ELSE Evaluate(op.inputs[1], ran) /\ Evaluate(op.inputs[2], ran)

\* for v in self._values[1:-1]: result = logical_and(result, v.is_initialized())
RECURSIVE AndMiddleValues(_, _, _)
AndMiddleValues(op, j, n) ==
  IF j > n - 2 THEN op
  ELSE AndMiddleValues(LogicalAnd(op, VarIsInitializedOp(j), NoName), j + 1, n)

\* (mutant) the loop over the middle elements is left out
DistributedVariable_is_initialized_primary_and_last(n, name) ==
  LogicalAnd(VarIsInitializedOp(0), VarIsInitializedOp(n - 1), name)

\* DistributedVariable.is_initialized
DistributedVariable_is_initialized(n, name) ==
  LogicalAnd(AndMiddleValues(VarIsInitializedOp(0), 1, n), VarIsInitializedOp(n - 1), name)

\* ------------------------------------------- operations of a variable
\* The operations compared between a TPU variant and its base class
ReadOperations == {"get", "handle", "device", "op", "operand", "read_value", "getattr"}
Operations == ReadOperations \cup AssignOps

\* the class a TPU variant extends
BaseOf(cls) ==
  CASE cls = "TPUMirroredVariable" -> "MirroredVariable"
    [] cls = "TPUSyncOnReadVariable" -> "SyncOnReadVariable"
    [] OTHER -> cls

\* the outcome of a call that hands on what get() returned, wrapped
Wrapped(tag, g) == IF g.status = "ok" THEN Outcome("ok", g.values, <<tag, g.value>>) ELSE g

\* DistributedVariable.read_value: identity(self.get()) under the strategy guard
DistributedVariable_read_value(cls, vals, n, agg, dt, scope, replica_context, update_id, device) ==
  IF enter_or_assert_strategy(scope) = "RuntimeError"
  THEN Outcome("RuntimeError", vals, NoValue)
  ELSE Wrapped("identity", DistributedValues_get(cls, vals, n, agg, dt, enter_or_assert_strategy(scope), replica_context, update_id, device))

\* get, handle, device, op, _get_as_operand, read_value, __getattr__ of an
\* ordinary attribute, and the assign functions of MirroredVariable and
\* SyncOnReadVariable, called with a strategy scope active
DistributedVariable_operation(cls, name, arg, vals, n, agg, dt, scope, replica_context, update_id, device) ==
  LET got == DistributedValues_get(cls, vals, n, agg, dt, scope, replica_context, update_id, device)
      handle == DistributedVariable_handle(replica_context, update_id)
  IN CASE name = "get" -> got
       [] name = "handle" -> Outcome(handle.status, vals, handle.value)
       [] name = "device" ->
            Outcome("ok", vals, <<"device", get_closest(n, replica_context, update_id, device)>>)
       [] name = "op" ->
            IF replica_context = NoReplicaId
            THEN Outcome("ok", vals, <<"DistributedVarOp", 0>>)
            ELSE Wrapped("op", got)
       [] name = "operand" -> got
       [] name = "read_value" ->
            DistributedVariable_read_value(cls, vals, n, agg, dt, scope, replica_context, update_id, device)
       [] name = "getattr" -> Wrapped("attr", got)
       [] name \in AssignOps ->
            Variable_assign(cls, name, arg, vals, n, agg, dt, scope, replica_context, update_id, FALSE)

\* (mutant) a TPU variant that inherits every operation unchanged
TPUVariableMixin_operation_inherited(cls, name, arg, vals, n, agg, dt, scope, replica_context, update_id, device, tpu) ==
  DistributedVariable_operation(BaseOf(cls), name, arg, vals, n, agg, dt, scope, replica_context, update_id, device)

\* the same operations of TPUMirroredVariable and TPUSyncOnReadVariable: the
\* overrides of TPUVariableMixin come first in the method resolution order
TPUVariableMixin_operation(cls, name, arg, vals, n, agg, dt, scope, replica_context, update_id, device, tpu) ==
  LET base(nm) == DistributedVariable_operation(BaseOf(cls), nm, arg, vals, n, agg, dt, scope, replica_context, update_id, device)
      handle == TPUVariableMixin_handle(n, replica_context, update_id, device, tpu)
      read_variable_op == Outcome("ok", vals, <<"read_variable_op", handle.value>>)
  IN CASE name = "get" ->
            IF ~tpu THEN base("get") ELSE Outcome("NotImplementedError", vals, NoValue)
       [] name = "handle" -> Outcome(handle.status, vals, handle.value)
       [] name = "device" ->
            Outcome("ok", vals, IF handle.value = ReplicatedHandle THEN <<"device", NoReplicaId>> ELSE <<"device", handle.value[2]>>)
       [] name = "op" -> Outcome("ok", vals, <<"DistributedVarOp", 0>>)
       [] name \in {"operand", "read_value"} ->
            IF ~tpu THEN base("read_value") ELSE read_variable_op
       [] name = "getattr" ->
            IF ~tpu THEN base("getattr") ELSE Outcome("AttributeError", vals, NoValue)
       [] name \in AssignOps ->
            Variable_assign(cls, name, arg, vals, n, agg, dt, scope, replica_context, update_id, tpu)

\* ------------------------------------------------------ checkpoint adapters
\* (mutant) the saved tensor is read from the primary element alone
SyncOnReadSaveable_tensor_primary_only(vals, n, agg, dt, scope) == Outcome("ok", vals, Tensor(vals[0]))

\* _SyncOnReadSaveable.__init__.tensor: strategy.extended.read_var(variable),
\* the strategy's read path, which is the variable's cross-replica read.
SyncOnReadSaveable_tensor(vals, n, agg, dt, scope) ==
  LET out == SyncOnReadVariable_get_cross_replica(vals, n, agg, dt, scope)
  IN IF out.status = "ok" /\ out.value[1] = "elem"
     THEN Outcome("ok", vals, Tensor(vals[out.value[2]]))
     ELSE out

\* (mutant) the restored tensor is not divided
SyncOnReadSaveable_restore_undivided(restored, vals, n, agg, dt) ==
  [i \in DOMAIN vals |-> assign_on_device("assign", vals[i], restored)]

\* _SyncOnReadSaveable.restore
SyncOnReadSaveable_restore(restored, vals, n, agg, dt) ==
  LET tensor == IF agg = "SUM" THEN DivideAndCast(restored, n, dt) ELSE restored
  IN [i \in DOMAIN vals |-> assign_on_device("assign", vals[i], tensor)]

SyncOnReadSaveable_restore_defined(restored, n, agg, dt) ==
  agg = "SUM" => Representable(restored, n, dt)

\* _MirroredSaveable: the primary element's value is what is saved
MirroredSaveable_tensor(vals) == Outcome("ok", vals, Tensor(vals[0]))

\* (mutant) only the primary element is restored
MirroredSaveable_restore_primary_only(restored, vals) ==
  [vals EXCEPT ![0] = assign_on_device("assign", @, restored)]

\* _MirroredSaveable.restore
MirroredSaveable_restore(restored, vals) ==
  [i \in DOMAIN vals |-> assign_on_device("assign", vals[i], restored)]

\* the name of element i, as "<variable>[/replica_<i>]:<output>", kept in parts
ElementName(i) == [variable |-> "v", replica |-> i, output |-> 0]

\* name.split(":")[0]
SplitOutput(name) == [variable |-> name.variable, replica |-> name.replica]

\* DistributedVariable.__init__: self._common_name
common_name == SplitOutput(ElementName(0))

\* saver.BaseSaverBuilder.SaveSpec
SaveSpec(tensor, name) == [tensor |-> tensor, slice_spec |-> "", name |-> name]

\* ResourceVariableSaveable.__init__: one spec, reading the given variable
ResourceVariableSaveable(var, name) == <<SaveSpec(<<"read", var>>, name)>>

\* _MirroredSaveable.__init__
MirroredSaveable(primary, name) ==
  [cls |-> "_MirroredSaveable", name |-> name, specs |-> ResourceVariableSaveable(primary, name)]

\* _SyncOnReadSaveable.__init__
SyncOnReadSaveable(name) ==
  [cls |-> "_SyncOnReadSaveable", name |-> name, specs |-> <<SaveSpec("read_var", name)>>]

VARIABLE_VALUE_KEY == "VARIABLE_VALUE"

\* _gather_saveables_for_checkpoint: attribute name -> saveable built by the
\* factory with its default name
gather_saveables_for_checkpoint(cls) ==
  [key \in {VARIABLE_VALUE_KEY} |->
     IF IsMirrored(cls) THEN MirroredSaveable(0, common_name) ELSE SyncOnReadSaveable(common_name)]

\* (mutant) the first restored tensor is taken, however many there are
Unpacks_first(restored_tensors) == Len(restored_tensors) >= 1

\* "tensor, = restored_tensors" succeeds on exactly one tensor
Unpacks(restored_tensors) == Len(restored_tensors) = 1

\* restore of either saveable, from the list of restored tensors
Saveable_restore(cls, restored_tensors, vals, n, agg, dt) ==
  IF ~Unpacks(restored_tensors)
  THEN Outcome("ValueError", vals, NoValue)
  ELSE IF IsMirrored(cls)
       THEN Outcome("ok", MirroredSaveable_restore(restored_tensors[1], vals), NoValue)
       ELSE Outcome("ok", SyncOnReadSaveable_restore(restored_tensors[1], vals, n, agg, dt), NoValue)

Saveable_restore_defined(cls, restored_tensors, n, agg, dt) ==
  (Len(restored_tensors) >= 1 /\ ~IsMirrored(cls)) =>
     SyncOnReadSaveable_restore_defined(restored_tensors[1], n, agg, dt)

\* ------------------------------------------------------------ arguments
\* An argument is an object and its value.  ConstObj(v) is the one object of
\* value v that every replica can pass (a constant of the replica function);
\* LocalObj(i) is an object replica i computed itself.
ConstObj(v) == v
LocalObj(i) == 0 - (i + 1)
ConstArgs == {[obj |-> ConstObj(v), val |-> v] : v \in ArgValues}
LocalArgs(i) == {[obj |-> LocalObj(i), val |-> v] : v \in ArgValues}
ReplicaArgs(i) == {[obj |-> ConstObj(1), val |-> 1]} \cup LocalArgs(i)

Result(op, st, ret, rid) == [op |-> op, status |-> st, value |-> ret, rid |-> rid]

\* ------------------------------------------------------- nests and leaves
\* A Python value: a nest (list, tuple, namedtuple, dict) of items, or a leaf
\* object.  id tells leaf objects apart (`is`); container is the variable a
\* component's _distributed_container refers to; vals are the values of a
\* DistributedValues; inputs are the data and control inputs of a graph node.
NestKinds == {"list", "tuple", "namedtuple", "dict"}
Errors == {"AssertionError", "AttributeError", "TypeError"}
NoContainer == 0 - 1
TheVariableId == 1

Value(kind, keys, items, id, container, vals, inputs) == [kind |-> kind, keys |-> keys, items |-> items, id |-> id, container |-> container, vals |-> vals, inputs |-> inputs]

Nest(kind, keys, items) == Value(kind, keys, items, 0, NoContainer, <<>>, <<>>)
List(items) == Nest("list", <<>>, items)
Tuple(items) == Nest("tuple", <<>>, items)
NamedTuple(items) == Nest("namedtuple", <<>>, items)
Dict(keys, items) == Nest("dict", keys, items)

Leaf(kind, id, container, vals, inputs) == Value(kind, <<>>, <<>>, id, container, vals, inputs)
Object(id) == Leaf("object", id, NoContainer, <<>>, <<>>)
None == Leaf("None", 0, NoContainer, <<>>, <<>>)
Raised(err) == Leaf(err, 0, NoContainer, <<>>, <<>>)

\* values[i] of the distributed variable: DistributedVariable.__init__ sets
\* its _distributed_container to the variable
Component(i) == Leaf("component", i, TheVariableId, <<>>, <<>>)

\* PerReplica(values), Mirrored(values)
DistributedValue(cls, vals) == Leaf(cls, 0, NoContainer, vals, <<>>)

DistributedVariable(cls, n) == Leaf(cls, TheVariableId, NoContainer, [k \in 1..n |-> Component(k - 1)], <<>>)

\* an element of the distributed variable c; a second distributed variable of
\* the program, and the id of one that has been destroyed
OtherVariableId == 2
GoneVariableId == 0
ElementOf(c, i) == Leaf("component", i, c, <<>>, <<>>)

\* no distributed variable: none was created, or the one created was destroyed
NoVariable == "NoVariable"

\* a variable made by the creator that no distributed variable has taken yet
RawVariable(i) == Leaf("variable", i, NoContainer, <<>>, <<>>)

\* the distributed variable under test, as an object
TheVariable == DistributedVariable(var_cls, num_replicas)

OtherVariable == Leaf(var_cls, OtherVariableId, NoContainer, [k \in 1..num_replicas |-> ElementOf(OtherVariableId, k - 1)], <<>>)

IsNest(x) == x.kind \in NestKinds
IsRaised(x) == x.kind \in Errors
KeySet(x) == {x.keys[j] : j \in 1..Len(x.keys)}
Lookup(x, key) == x.items[CHOOSE j \in 1..Len(x.keys) : x.keys[j] = key]

\* nest.flatten: the leaves, left to right
RECURSIVE Flatten(_)
RECURSIVE FlattenItems(_, _)
Flatten(s) == IF IsNest(s) THEN FlattenItems(s.items, 1) ELSE <<s>>

FlattenItems(items, j) == IF j > Len(items) THEN <<>> ELSE Flatten(items[j]) \o FlattenItems(items, j + 1)

Leaves(s) == {Flatten(s)[j] : j \in 1..Len(Flatten(s))}

\* the place of every leaf, as the indices leading to it
RECURSIVE LeafPaths(_)
LeafPaths(s) ==
  IF IsNest(s)
  THEN UNION {{<<j>> \o p : p \in LeafPaths(s.items[j])} : j \in 1..Len(s.items)}
  ELSE {<<>>}

RECURSIVE At(_, _)
At(s, p) == IF p = <<>> THEN s ELSE At(s.items[Head(p)], Tail(p))

\* the nest with its leaves blanked
RECURSIVE Shape(_)
Shape(s) ==
  IF IsNest(s)
  THEN Nest(s.kind, s.keys, [j \in 1..Len(s.items) |-> Shape(s.items[j])])
  ELSE None

RECURSIVE Depth(_)
RECURSIVE DepthOfItems(_, _)
Depth(s) == IF IsNest(s) THEN 1 + DepthOfItems(s.items, 1) ELSE 0

DepthOfItems(items, j) ==
  IF j > Len(items) THEN 0
  ELSE LET d == Depth(items[j])
           rest == DepthOfItems(items, j + 1)
       IN IF d > rest THEN d ELSE rest

\* what a call returned, or the first error raised under it
Returned(v) == [status |-> "ok", value |-> v]
Raise(err) == [status |-> err, value |-> Raised(err)]
NoOutcome == [status |-> "none", value |-> None]
OutcomeOf(r) ==
  LET raised == SelectSeq(Flatten(r), IsRaised)
  IN IF raised # <<>> THEN Raise(raised[1].kind) ELSE Returned(r)

NoSelected == [op |-> "none", status |-> "ok", value |-> None, rid |-> NoReplicaId]

\* ---------------------------------------------------------------- regroup
\* hasattr(v, "_distributed_container"): the components of a distributed
\* variable have it; DistributedDelegate.__getattr__ does not forward it, so
\* a distributed value has not
has_distributed_container(v) == v.kind = "component"

\* v._distributed_container(): the weak reference, dereferenced
distributed_container(v) ==
  CASE v.container = TheVariableId /\ var_cls # NoVariable -> TheVariable
    [] v.container = OtherVariableId -> OtherVariable
    [] OTHER -> None

\* (mutant) the dereferenced weak reference is returned even when it is dead
value_container_dead_reference_returned(val) ==
  IF has_distributed_container(val) /\ ~IsDistributedVariable(val.kind)
  THEN distributed_container(val)
  ELSE val

\* value_container
value_container(val) ==
  IF has_distributed_container(val) /\ ~IsDistributedVariable(val.kind)
  THEN LET container == distributed_container(val)
       IN IF container # None THEN container ELSE val
  ELSE val

is_tensor(v) == v.kind = "tensor"

\* control_flow_ops.group(values)
Group(vs) == Leaf("operation", 0, NoContainer, <<>>, vs)

\* array_ops.identity(v) under control_dependencies([g])
IdentityWithDep(v, g) == Leaf("tensor", v.id, NoContainer, <<>>, <<v, g>>)

\* (mutant) the values are wrapped without the group and its dependencies
make_grouped_mirrored_ungrouped(vs) == DistributedValue("Mirrored", vs)

\* update_regroup._make_grouped_mirrored
make_grouped_mirrored(vs) ==
  IF Len(vs) = 1
  THEN DistributedValue("Mirrored", vs)
  ELSE LET g == Group(vs)
       IN IF ~(\A k \in 1..Len(vs) : is_tensor(vs[k]))
          THEN g
          ELSE DistributedValue("Mirrored", [k \in 1..Len(vs) |-> IdentityWithDep(vs[k], g)])

\* wrap_class(values)
Wrap(cls, vs) ==
  IF cls = "_make_grouped_mirrored" THEN make_grouped_mirrored(vs) ELSE DistributedValue(cls, vs)

\* (mutant) one object passed by every replica is returned, whatever it is
regroup_leaf_same_object_unwrapped(vs, cls) ==
  LET v0 == vs[1]
      rest == 2..Len(vs)
      container == distributed_container(v0)
  IN IF \A k \in rest : vs[k] = v0
     THEN v0
     ELSE IF has_distributed_container(v0)
     THEN IF container = None \/ \E k \in rest : distributed_container(vs[k]) # container
          THEN Raised("AssertionError")
          ELSE container
     ELSE Wrap(cls, vs)

\* (mutant) one object passed by every replica is wrapped like any other
regroup_leaf_always_wrapped(vs, cls) ==
  LET v0 == vs[1]
      rest == 2..Len(vs)
      container == distributed_container(v0)
  IN IF has_distributed_container(v0)
     THEN IF container = None \/ \E k \in rest : distributed_container(vs[k]) # container
          THEN Raised("AssertionError")
          ELSE container
     ELSE Wrap(cls, vs)

\* regroup at a leaf: vs are the replicas' values at one place of the nest
regroup_leaf(vs, cls) ==
  LET v0 == vs[1]
      rest == 2..Len(vs)
      same_id == \A k \in rest : vs[k] = v0
      container == distributed_container(v0)
  IN IF same_id /\ (IsDistributedVariable(v0.kind) \/ ~has_distributed_container(v0))
     THEN v0
     ELSE IF has_distributed_container(v0)
     THEN IF v0.kind = "MirroredVariable" \/ container = None
          THEN Raised("AssertionError")
          ELSE IF \E k \in rest : ~has_distributed_container(vs[k])
          THEN Raised("AttributeError")
          ELSE IF \E k \in rest : distributed_container(vs[k]) # container
          THEN Raised("AssertionError")
          ELSE container
     ELSE Wrap(cls, vs)

\* regroup(values, wrap_class); a failed assert leaves Raised in its place
RECURSIVE regroup(_, _)
regroup(vs, cls) ==
  LET v0 == vs[1]
      n == Len(vs)
      rest == 2..n
      Column(j) == [k \in 1..n |-> vs[k].items[j]]
      KeyColumn(key) == [k \in 1..n |-> Lookup(vs[k], key)]
  IN CASE v0.kind = "list" ->
            IF \E k \in rest : vs[k].kind # "list" \/ Len(vs[k].items) # Len(v0.items)
            THEN Raised("AssertionError")
            ELSE List([j \in 1..Len(v0.items) |-> regroup(Column(j), cls)])
       [] v0.kind \in {"tuple", "namedtuple"} ->
            IF \E k \in rest : vs[k].kind \notin {"tuple", "namedtuple"} \/ Len(vs[k].items) # Len(v0.items)
            THEN Raised("AssertionError")
            ELSE Nest(v0.kind, <<>>, [j \in 1..Len(v0.items) |-> regroup(Column(j), cls)])
       [] v0.kind = "dict" ->
            IF \E k \in rest : vs[k].kind # "dict" \/ KeySet(vs[k]) # KeySet(v0)
            THEN Raised("AssertionError")
            ELSE Dict(v0.keys, [j \in 1..Len(v0.keys) |-> regroup(KeyColumn(v0.keys[j]), cls)])
       [] OTHER -> regroup_leaf(vs, cls)

\* ------------------------------------------------------------------ select
\* (mutant) the replica id is ignored: the first value is returned
select_replica_get_first(replica_id, x) ==
  IF IsDistributedVariable(x.kind) \/ ~IsDistributedValues(x.kind) THEN x ELSE x.vals[1]

\* select_replica._get
select_replica_get(replica_id, x) ==
  IF IsDistributedVariable(x.kind) \/ ~IsDistributedValues(x.kind)
  THEN x
  ELSE x.vals[replica_id + 1]

\* nest.map_structure(_get, structured)
RECURSIVE select_replica(_, _)
select_replica(replica_id, structured) ==
  IF IsNest(structured)
  THEN Nest(structured.kind, structured.keys, [j \in 1..Len(structured.items) |-> select_replica(replica_id, structured.items[j])])
  ELSE select_replica_get(replica_id, structured)

\* (mutant) only a PerReplica is rejected
select_replica_mirrored_get_per_replica_only(replica_id, x) ==
  IF x.kind = "PerReplica" THEN Raised("TypeError") ELSE select_replica_get(replica_id, x)

\* (mutant) a mirrored variable is left in place, as select_replica leaves it
select_replica_mirrored_get_variable_kept(replica_id, x) ==
  IF IsDistributedValues(x.kind) /\ ~IsMirrored(x.kind)
  THEN Raised("TypeError")
  ELSE select_replica_get(replica_id, x)

\* select_replica_mirrored._get_mirrored
select_replica_mirrored_get(replica_id, x) ==
  IF IsDistributedValues(x.kind)
  THEN IF ~IsMirrored(x.kind) THEN Raised("TypeError") ELSE x.vals[replica_id + 1]
  ELSE x

\* nest.map_structure(_get_mirrored, structured)
RECURSIVE select_replica_mirrored(_, _)
select_replica_mirrored(replica_id, structured) ==
  IF IsNest(structured)
  THEN Nest(structured.kind, structured.keys, [j \in 1..Len(structured.items) |-> select_replica_mirrored(replica_id, structured.items[j])])
  ELSE select_replica_mirrored_get(replica_id, structured)

\* extended._local_results
local_results(x) == IF IsDistributedValues(x.kind) THEN Tuple(x.vals) ELSE Tuple(<<x>>)

RECURSIVE map_local_results(_)
map_local_results(structured) ==
  IF IsNest(structured)
  THEN Nest(structured.kind, structured.keys, [j \in 1..Len(structured.items) |-> map_local_results(structured.items[j])])
  ELSE IF IsRaised(structured) THEN structured ELSE local_results(structured)

\* update_regroup(extended, updates, group)
update_regroup(updates, group) ==
  IF ~group
  THEN map_local_results(regroup(updates, "Mirrored"))
  ELSE regroup(updates, "_make_grouped_mirrored")

\* a graph node is ready once the update ops it depends on have completed
RECURSIVE Ready(_, _)
Ready(x, done) ==
  IF x.inputs = <<>>
  THEN x.id \in done
  ELSE \A j \in 1..Len(x.inputs) : Ready(x.inputs[j], done)

\* the results a caller can look at: <<p, 0>> is the leaf at p itself,
\* <<p, j>> the j-th value of the distributed value at p
Observables(r) ==
  UNION {LET x == At(r, p)
         IN IF IsDistributedValues(x.kind)
            THEN {<<p, j>> : j \in 1..Len(x.vals)}
            ELSE {<<p, 0>>} : p \in LeafPaths(r)}

ObservedNode(r, o) == IF o[2] = 0 THEN At(r, o[1]) ELSE At(r, o[1]).vals[o[2]]

\* no module-level function called
NoCall == [fn |-> "none"]
NoCalls == fn_args = NoCall /\ fn_result = NoCall

\* no regroup in progress: the state of the structure variables elsewhere
NoStructures ==
  /\ NoCalls
  /\ rg_values = <<>>
  /\ wrap_class = "PerReplica"
  /\ regrouped = NoOutcome
  /\ selected = NoSelected
  /\ completed = {}
  /\ observed = {}

\* the classes of variable
VariableClasses == {"MirroredVariable", "SyncOnReadVariable", "TPUMirroredVariable", "TPUSyncOnReadVariable", "AggregatingVariable"}

\* ----------------------------------------------------------- PerReplicaSpec
\* distribution_strategy_context.get_replica_context(): the replica context of
\* the running replica function, the default replica context (of one replica)
\* when no strategy scope is active, and None in cross-replica context
NoReplicaContext == [num_replicas_in_sync |-> 0]

get_replica_context(scope, in_rep, n) ==
  IF in_rep THEN [num_replicas_in_sync |-> n]
  ELSE IF scope = "none" THEN [num_replicas_in_sync |-> 1]
  ELSE NoReplicaContext

\* (mutant) the components are handed out in every context
PerReplicaSpec_to_components_unchecked(value, replica_context) == Returned(value.vals)

\* PerReplicaSpec._to_components
PerReplicaSpec_to_components(value, replica_context) ==
  IF replica_context # NoReplicaContext /\ replica_context.num_replicas_in_sync > 1
  THEN [status |-> "ValueError", value |-> <<>>]
  ELSE Returned(value.vals)

\* ------------------------------------------------ create_mirrored_variable
\* a keyword argument that was not passed
Absent == "absent"

Synchronizations == {"NONE", "ON_READ", "ON_WRITE", "AUTO"}

\* the keyword arguments tried: every enum value, one value outside the enum
\* and the absent argument; the name is passed or not
Kwargs ==
  [synchronization : Synchronizations \cup {"other", Absent},
   aggregation : Aggregations \cup {"other", Absent},
   name : {"v", Absent}]

\* kwargs.get(key, default) and kwargs.pop(key, default)
kwargs_get(kwargs, key, default) == IF kwargs[key] = Absent THEN default ELSE kwargs[key]

\* kwargs["name"] inside an error message: a KeyError when no name was passed
ErrorNaming(kwargs, error) == IF kwargs.name = Absent THEN "KeyError" ELSE error

Created(st, cls, agg, called) == [status |-> st, cls |-> cls, aggregation |-> agg, creator_called |-> called]

\* (mutant) the options are not validated: whatever is not ON_READ is mirrored
create_mirrored_variable_unvalidated(kwargs, mirrored_cls, sync_on_read_cls) ==
  Created("ok",
          IF kwargs_get(kwargs, "synchronization", "ON_WRITE") = "ON_READ" THEN sync_on_read_cls ELSE mirrored_cls,
          IF kwargs.aggregation \in Aggregations THEN kwargs.aggregation ELSE "NONE", TRUE)

\* create_mirrored_variable, up to the construction of the result
create_mirrored_variable(kwargs, mirrored_cls, sync_on_read_cls) ==
  LET synchronization == kwargs_get(kwargs, "synchronization", "ON_WRITE")
      aggregation_arg == kwargs_get(kwargs, "aggregation", "NONE")
  IN IF synchronization = "NONE"
     THEN Created(ErrorNaming(kwargs, "ValueError"), NoVariable, "NONE", FALSE)
     ELSE IF synchronization \notin {"ON_READ", "ON_WRITE", "AUTO"}
     THEN Created(ErrorNaming(kwargs, "ValueError"), NoVariable, "NONE", FALSE)
     ELSE IF aggregation_arg \notin {"NONE", "SUM", "MEAN", "ONLY_FIRST_REPLICA"}
     THEN Created(ErrorNaming(kwargs, "ValueError"), NoVariable, "NONE", FALSE)
     ELSE Created("ok", IF synchronization = "ON_READ" THEN sync_on_read_cls ELSE mirrored_cls,
                  aggregation_arg, TRUE)

\* ------------------------------------------------------ validate_colocate
\* A value handed to colocate_vars_with: its class and the strategy its
\* _distribute_strategy attribute holds (NoStrategy: it has no such attribute).
\* An extended object is told apart by the strategy it belongs to.
Strategies == 1..MaxStrategies
NoStrategy == 0

ColocateValues ==
  {[cls |-> c, strategy |-> st] : c \in VariableClasses, st \in Strategies}
  \cup {[cls |-> c, strategy |-> NoStrategy] : c \in {"PerReplica", "Mirrored", "object"}}

\* (mutant) the strategies are not compared
validate_colocate_extended_unchecked(v, extended) == "ok"

\* _validate_colocate_extended
validate_colocate_extended(v, extended) ==
  IF v.strategy # extended THEN "ValueError" ELSE "ok"

\* validate_colocate_distributed_variable
validate_colocate_distributed_variable(v, extended) ==
  IF ~IsDistributedVariable(v.cls) THEN "ValueError" ELSE validate_colocate_extended(v, extended)

\* validate_colocate
validate_colocate(v, extended) ==
  IF v.strategy = NoStrategy THEN "ValueError" ELSE validate_colocate_extended(v, extended)

\* ----------------------------------------------------------------- Init
\* A variable's elements are created from one initial value; a container of
\* values that are not variables is built from any values.
InitialValues(n, cls) ==
  IF IsDistributedVariable(cls)
  THEN {[i \in 0..(n - 1) |-> c] : c \in {0, 1}}
  ELSE [0..(n - 1) -> Values]

InitVariable(classes, scopes) ==
  /\ num_replicas \in 1..MaxReplicas
  /\ var_cls \in classes
  /\ aggregation \in Aggregations
  /\ dtype \in Dtypes
  /\ values \in InitialValues(num_replicas, var_cls)
  /\ strategy_scope \in scopes
  /\ in_replica = FALSE
  /\ update_replica_id = NoReplicaId
  /\ merge_op = NoOp
  /\ merge_args = [i \in 0..(num_replicas - 1) |-> NoArg]
  /\ saved = NoValue
  /\ result = NoResult
  /\ tpu_context = FALSE
  /\ NoStructures

\* ------------------------------------------- the strategy drives the context
Idle == ~in_replica /\ update_replica_id = NoReplicaId

\* with strategy.scope(): / with other_strategy.scope():
EnterScope(s) ==
  /\ Idle /\ strategy_scope = "none"
  /\ strategy_scope' = s
  /\ result' = NoResult
  /\ UNCHANGED <<structVars, callVars>>
  /\ UNCHANGED <<tpu_context, num_replicas, var_cls, aggregation, dtype, values, in_replica,
                 update_replica_id, merge_op, merge_args, saved>>

ExitScope ==
  /\ Idle /\ strategy_scope # "none"
  /\ strategy_scope' = "none"
  /\ result' = NoResult
  /\ UNCHANGED <<structVars, callVars>>
  /\ UNCHANGED <<tpu_context, num_replicas, var_cls, aggregation, dtype, values, in_replica,
                 update_replica_id, merge_op, merge_args, saved>>

\* strategy.extended.call_for_each_replica starts the replicas
CallForEachReplica ==
  /\ Idle /\ strategy_scope = "own"
  /\ in_replica' = TRUE
  /\ result' = NoResult
  /\ UNCHANGED <<structVars, callVars>>
  /\ UNCHANGED <<tpu_context, num_replicas, var_cls, aggregation, dtype, values, strategy_scope,
                 update_replica_id, merge_op, merge_args, saved>>

\* every replica function has returned
ReplicasReturn ==
  /\ in_replica /\ \A i \in Replicas : merge_args[i] = NoArg
  /\ in_replica' = FALSE
  /\ result' = NoResult
  /\ UNCHANGED <<structVars, callVars>>
  /\ UNCHANGED <<tpu_context, num_replicas, var_cls, aggregation, dtype, values, strategy_scope,
                 update_replica_id, merge_op, merge_args, saved>>

\* strategy.extended.update runs the update function for replica k
EnterUpdate(k) ==
  /\ Idle /\ strategy_scope = "own"
  /\ update_replica_id' = k
  /\ result' = NoResult
  /\ UNCHANGED <<structVars, callVars>>
  /\ UNCHANGED <<tpu_context, num_replicas, var_cls, aggregation, dtype, values, strategy_scope,
                 in_replica, merge_op, merge_args, saved>>

ExitUpdate ==
  /\ update_replica_id # NoReplicaId
  /\ update_replica_id' = NoReplicaId
  /\ result' = NoResult
  /\ UNCHANGED <<structVars, callVars>>
  /\ UNCHANGED <<tpu_context, num_replicas, var_cls, aggregation, dtype, values, strategy_scope,
                 in_replica, merge_op, merge_args, saved>>

\* the caller enters / leaves tpu.rewrite()
EnterTPUContext ==
  /\ ~in_replica /\ ~tpu_context
  /\ tpu_context' = TRUE
  /\ result' = NoResult
  /\ UNCHANGED <<structVars, callVars>>
  /\ UNCHANGED <<num_replicas, var_cls, aggregation, dtype, values, strategy_scope,
                 in_replica, update_replica_id, merge_op, merge_args, saved>>

ExitTPUContext ==
  /\ ~in_replica /\ tpu_context
  /\ tpu_context' = FALSE
  /\ result' = NoResult
  /\ UNCHANGED <<structVars, callVars>>
  /\ UNCHANGED <<num_replicas, var_cls, aggregation, dtype, values, strategy_scope,
                 in_replica, update_replica_id, merge_op, merge_args, saved>>

\* ------------------------------------------------------------------ calls
\* var.assign(arg) / var.assign_add(arg) / var.assign_sub(arg) of the variable
\* under test, called by replica_context (NoReplicaId: not by a replica)
VarAssign(op, arg, replica_context) ==
  Variable_assign(var_cls, op, arg, values, num_replicas, aggregation, dtype, strategy_scope, replica_context, update_replica_id, tpu_context)

VarAssignDefined(op, arg, replica_context) ==
  Variable_assign_defined(var_cls, op, arg, num_replicas, aggregation, dtype, strategy_scope, replica_context, tpu_context)

\* a call made outside replica context
AssignCall(op, arg) ==
  /\ ~in_replica
  /\ VarAssignDefined(op, arg, NoReplicaId)
  /\ LET out == VarAssign(op, arg, NoReplicaId)
     IN /\ AllInRange(var_cls, out.values)
        /\ values' = out.values
        /\ result' = Result(op, out.status, out.value, NoReplicaId)
  /\ UNCHANGED <<structVars, callVars>>
  /\ UNCHANGED <<tpu_context, num_replicas, var_cls, aggregation, dtype, strategy_scope, in_replica,
                 update_replica_id, merge_op, merge_args, saved>>

\* a call made by replica i; every replica runs the same function, so the
\* replicas that meet in one merge_call call the same assign function
ReplicaAssignCall(i, op, arg) ==
  /\ in_replica /\ merge_args[i] = NoArg
  /\ merge_op \in {NoOp, op}
  /\ VarAssignDefined(op, arg, i)
  /\ LET out == VarAssign(op, arg, i)
     IN IF out.status = "merge_call"
        THEN /\ merge_args' = [merge_args EXCEPT ![i] = arg]
             /\ merge_op' = op
             /\ UNCHANGED <<values, result>>
        ELSE /\ AllInRange(var_cls, out.values)
             /\ values' = out.values
             /\ result' = Result(op, out.status, out.value, i)
             /\ UNCHANGED <<merge_args, merge_op>>
  /\ UNCHANGED <<structVars, callVars>>
  /\ UNCHANGED <<tpu_context, num_replicas, var_cls, aggregation, dtype, strategy_scope, in_replica,
                 update_replica_id, saved>>

\* merge_call: every replica has arrived; merge_fn runs once and every
\* replica's call returns (or raises) with its outcome
MergeCall ==
  /\ in_replica /\ \A i \in Replicas : merge_args[i] # NoArg
  /\ Variable_merge_fn_defined(var_cls, merge_args, num_replicas, aggregation, dtype)
  /\ LET out == Variable_merge_fn(var_cls, merge_op, merge_args, values, num_replicas, aggregation, dtype)
     IN /\ AllInRange(var_cls, out.values)
        /\ values' = out.values
        /\ result' = Result(merge_op, out.status, out.value, NoReplicaId)
  /\ merge_args' = [i \in Replicas |-> NoArg]
  /\ merge_op' = NoOp
  /\ UNCHANGED <<structVars, callVars>>
  /\ UNCHANGED <<tpu_context, num_replicas, var_cls, aggregation, dtype, strategy_scope, in_replica,
                 update_replica_id, saved>>

\* var.get(), by replica_context, on device
GetCall(replica_context, device) ==
  /\ IF in_replica
     THEN replica_context \in Replicas /\ merge_args[replica_context] = NoArg
     ELSE replica_context = NoReplicaId
  /\ LET out == DistributedValues_get(var_cls, values, num_replicas, aggregation, dtype, strategy_scope, replica_context, update_replica_id, device)
     IN result' = Result("get", out.status, out.value, replica_context)
  /\ UNCHANGED <<structVars, callVars>>
  /\ UNCHANGED <<tpu_context, num_replicas, var_cls, aggregation, dtype, values, strategy_scope,
                 in_replica, update_replica_id, merge_op, merge_args, saved>>

\* var.handle, read by replica_context, on device
HandleCall(replica_context, device) ==
  /\ IF in_replica
     THEN replica_context \in Replicas /\ merge_args[replica_context] = NoArg
     ELSE replica_context = NoReplicaId
  /\ LET out == IF IsTPUVariable(var_cls)
                THEN TPUVariableMixin_handle(num_replicas, replica_context, update_replica_id, device, tpu_context)
                ELSE DistributedVariable_handle(replica_context, update_replica_id)
     IN result' = Result("handle", out.status, out.value, replica_context)
  /\ UNCHANGED <<structVars, callVars>>
  /\ UNCHANGED <<tpu_context, num_replicas, var_cls, aggregation, dtype, values, strategy_scope,
                 in_replica, update_replica_id, merge_op, merge_args, saved>>

\* the saver evaluates the saveable's tensor and writes it to the checkpoint
Save ==
  /\ Idle /\ IsDistributedVariable(var_cls)
  /\ LET out == IF IsMirrored(var_cls)
                THEN MirroredSaveable_tensor(values)
                ELSE SyncOnReadSaveable_tensor(values, num_replicas, aggregation, dtype, strategy_scope)
     IN /\ saved' = IF out.status = "ok" THEN out.value ELSE saved
        /\ result' = Result("save", out.status, out.value, NoReplicaId)
  /\ UNCHANGED <<structVars, callVars>>
  /\ UNCHANGED <<tpu_context, num_replicas, var_cls, aggregation, dtype, values, strategy_scope,
                 in_replica, update_replica_id, merge_op, merge_args>>

\* the saver hands the checkpoint's tensor to the saveable's restore
Restore ==
  /\ Idle /\ saved # NoValue
  /\ ~IsMirrored(var_cls) =>
       SyncOnReadSaveable_restore_defined(saved[2], num_replicas, aggregation, dtype)
  /\ LET restored == IF IsMirrored(var_cls)
                     THEN MirroredSaveable_restore(saved[2], values)
                     ELSE SyncOnReadSaveable_restore(saved[2], values, num_replicas, aggregation, dtype)
     IN AllInRange(var_cls, restored) /\ values' = restored
  /\ result' = Result("restore", "ok", NoValue, NoReplicaId)
  /\ UNCHANGED <<structVars, callVars>>
  /\ UNCHANGED <<tpu_context, num_replicas, var_cls, aggregation, dtype, strategy_scope, in_replica,
                 update_replica_id, merge_op, merge_args, saved>>

\* ------------------------------------------------------ regroup and select
\* What the replicas return at one place of a nest: an object each replica
\* made itself, one object they all share, their components of the
\* distributed variable, or the distributed variable itself.
PerReplicaLeaves(n, cls) ==
  { [k \in 1..n |-> Object(LocalObj(k - 1))],
    [k \in 1..n |-> Object(ConstObj(1))],
    [k \in 1..n |-> Component(k - 1)],
    [k \in 1..n |-> DistributedVariable(cls, n)] }

\* Structurally identical nests, one per replica, up to depth levels deep
RECURSIVE PerReplicaNests(_, _, _)
PerReplicaNests(depth, n, cls) ==
  IF depth = 0
  THEN PerReplicaLeaves(n, cls)
  ELSE LET inner == PerReplicaNests(depth - 1, n, cls)
       IN inner
          \cup {[k \in 1..n |-> List(<<Object(LocalObj(k - 1)), c[k]>>)] : c \in inner}
          \cup {[k \in 1..n |-> Tuple(<<c[k], Object(ConstObj(1))>>)] : c \in inner}
          \cup {[k \in 1..n |-> NamedTuple(<<c[k]>>)] : c \in inner}
          \cup {[k \in 1..n |-> Dict(<<"a", "b">>, <<Component(k - 1), c[k]>>)] : c \in inner}

\* a distributed variable that no call touches
InitQuietVariable ==
  /\ num_replicas \in 1..MaxReplicas
  /\ var_cls \in {"MirroredVariable", "SyncOnReadVariable"}
  /\ aggregation = "NONE"
  /\ dtype = "float32"
  /\ values = [i \in 0..(num_replicas - 1) |-> 0]
  /\ strategy_scope = "none"
  /\ in_replica = FALSE
  /\ update_replica_id = NoReplicaId
  /\ merge_op = NoOp
  /\ merge_args = [i \in 0..(num_replicas - 1) |-> NoArg]
  /\ saved = NoValue
  /\ result = NoResult
  /\ tpu_context = FALSE

InitRegroup ==
  /\ InitQuietVariable
  /\ NoCalls
  /\ rg_values \in PerReplicaNests(MaxDepth, num_replicas, var_cls)
  /\ wrap_class \in {"PerReplica", "Mirrored"}
  /\ regrouped = NoOutcome
  /\ selected = NoSelected
  /\ completed = {}
  /\ observed = {}

\* regroup(values, wrap_class)
RegroupCall ==
  /\ regrouped = NoOutcome
  /\ regrouped' = OutcomeOf(regroup(rg_values, wrap_class))
  /\ UNCHANGED <<rg_values, wrap_class, selected, completed, observed>>
  /\ UNCHANGED <<varVars, callVars>>

\* select_replica(i, regrouped): the one selection made of the regrouped nest
SelectReplicaCall(i) ==
  /\ regrouped.status = "ok" /\ selected = NoSelected
  /\ LET out == OutcomeOf(select_replica(i, regrouped.value))
     IN selected' = [op |-> "select_replica", status |-> out.status, value |-> out.value, rid |-> i]
  /\ UNCHANGED <<rg_values, wrap_class, regrouped, completed, observed>>
  /\ UNCHANGED <<varVars, callVars>>

\* select_replica_mirrored(i, regrouped), likewise
SelectReplicaMirroredCall(i) ==
  /\ regrouped.status = "ok" /\ selected = NoSelected
  /\ LET out == OutcomeOf(select_replica_mirrored(i, regrouped.value))
     IN selected' = [op |-> "select_replica_mirrored", status |-> out.status, value |-> out.value, rid |-> i]
  /\ UNCHANGED <<rg_values, wrap_class, regrouped, completed, observed>>
  /\ UNCHANGED <<varVars, callVars>>

NextRegroup ==
  \/ RegroupCall
  \/ \E i \in Replicas : SelectReplicaCall(i)
  \/ \E i \in Replicas : SelectReplicaMirroredCall(i)

SpecRegroup == InitRegroup /\ [][NextRegroup]_vars

\* ----------------------------------------------------------- update_regroup
\* The result of one replica's update: a tensor or an operation of the graph
UpdateResult(kind, id) == Leaf(kind, id, NoContainer, <<>>, <<>>)

\* What the replicas' update functions return: a tensor or an operation each,
\* one tensor they all share, or a list of a tensor and an operation each.
PerReplicaUpdates(n) ==
  {[k \in 1..n |-> UpdateResult(kinds[k], k - 1)] : kinds \in [1..n -> {"tensor", "operation"}]}
  \cup {[k \in 1..n |-> UpdateResult("tensor", n + n)]}
  \cup {[k \in 1..n |-> List(<<UpdateResult("tensor", k - 1), UpdateResult("operation", n + k - 1)>>)]}

UpdateIds == UNION {{x.id : x \in Leaves(rg_values[k])} : k \in 1..Len(rg_values)}

InitUpdateRegroup ==
  /\ InitQuietVariable
  /\ NoCalls
  /\ rg_values \in PerReplicaUpdates(num_replicas)
  /\ wrap_class = "PerReplica"
  /\ regrouped = NoOutcome
  /\ selected = NoSelected
  /\ completed = {}
  /\ observed = {}

\* update_regroup(extended, updates, group)
UpdateRegroupCall(group) ==
  /\ regrouped = NoOutcome
  /\ wrap_class' = IF group THEN "_make_grouped_mirrored" ELSE "Mirrored"
  /\ regrouped' = OutcomeOf(update_regroup(rg_values, group))
  /\ UNCHANGED <<rg_values, selected, completed, observed>>
  /\ UNCHANGED <<varVars, callVars>>

\* the runtime completes one replica's update op
CompleteUpdate(id) ==
  /\ id \in UpdateIds \ completed
  /\ completed' = completed \cup {id}
  /\ UNCHANGED <<rg_values, wrap_class, regrouped, selected, observed>>
  /\ UNCHANGED <<varVars, callVars>>

\* the caller sees a returned result ready: everything it depends on has run
Observe(o) ==
  /\ regrouped.status = "ok"
  /\ o \in Observables(regrouped.value) \ observed
  /\ Ready(ObservedNode(regrouped.value, o), completed)
  /\ observed' = observed \cup {o}
  /\ UNCHANGED <<rg_values, wrap_class, regrouped, selected, completed>>
  /\ UNCHANGED <<varVars, callVars>>

NextUpdateRegroup ==
  \/ \E group \in BOOLEAN : UpdateRegroupCall(group)
  \/ \E id \in UpdateIds : CompleteUpdate(id)
  \/ \E o \in Observables(regrouped.value) : Observe(o)

SpecUpdateRegroup == InitUpdateRegroup /\ [][NextUpdateRegroup]_vars

\* ------------------------------------------------------- specifications
InitMirrored == InitVariable({"MirroredVariable"}, {"none"})

NextMirrored ==
  \/ \E s \in {"own", "other"} : EnterScope(s)
  \/ ExitScope
  \/ CallForEachReplica
  \/ ReplicasReturn
  \/ \E op \in AssignOps, arg \in ConstArgs : AssignCall(op, arg)
  \/ \E i \in Replicas, op \in AssignOps : \E arg \in ReplicaArgs(i) : ReplicaAssignCall(i, op, arg)
  \/ MergeCall

SpecMirrored == InitMirrored /\ [][NextMirrored]_vars

InitSyncOnRead == InitVariable({"SyncOnReadVariable"}, {"none"})

NextSyncOnRead ==
  \/ \E s \in {"own", "other"} : EnterScope(s)
  \/ ExitScope
  \/ CallForEachReplica
  \/ ReplicasReturn
  \/ \E k \in Replicas : EnterUpdate(k)
  \/ ExitUpdate
  \/ \E op \in AssignOps, arg \in ConstArgs : AssignCall(op, arg)
  \/ \E i \in Replicas, op \in AssignOps : \E arg \in ConstArgs : ReplicaAssignCall(i, op, arg)
  \/ \E rc \in Replicas \cup {NoReplicaId} : GetCall(rc, 0)

SpecSyncOnRead == InitSyncOnRead /\ [][NextSyncOnRead]_vars

\* Containers of every class, read in every context
InitContainer ==
  /\ InitVariable({"PerReplica", "Mirrored", "MirroredVariable", "SyncOnReadVariable"}, {"none"})
  /\ ~IsDistributedVariable(var_cls) => aggregation = "NONE" /\ dtype = "float32"

NextContainer ==
  \/ \E s \in {"own", "other"} : EnterScope(s)
  \/ ExitScope
  \/ CallForEachReplica
  \/ ReplicasReturn
  \/ \E k \in Replicas : EnterUpdate(k)
  \/ ExitUpdate
  \/ \E rc \in Replicas \cup {NoReplicaId}, d \in 0..num_replicas : GetCall(rc, d)

SpecContainer == InitContainer /\ [][NextContainer]_vars

InitCheckpoint == InitVariable({"SyncOnReadVariable"}, {"own"})

NextCheckpoint ==
  \/ CallForEachReplica
  \/ ReplicasReturn
  \/ \E i \in Replicas, op \in AssignOps : \E arg \in ConstArgs : ReplicaAssignCall(i, op, arg)
  \/ Save
  \/ Restore

SpecCheckpoint == InitCheckpoint /\ [][NextCheckpoint]_vars

\* Every kind of variable, written and restored under every strategy scope
InitGuard ==
  /\ InitVariable(VariableClasses, {"none"})
  /\ var_cls = "AggregatingVariable" => num_replicas = 1

NextGuard ==
  \/ \E s \in {"own", "other"} : EnterScope(s)
  \/ ExitScope
  \/ EnterTPUContext
  \/ ExitTPUContext
  \/ \E op \in AssignOps, arg \in ConstArgs : AssignCall(op, arg)
  \/ Save
  \/ Restore

SpecGuard == InitGuard /\ [][NextGuard]_vars

\* colocate_vars_with validates the value it is handed
InitFixedVariable ==
  /\ InitQuietVariable
  /\ num_replicas = 1
  /\ var_cls = "MirroredVariable"
  /\ NoStructures

ValidateColocateCall(v, extended) ==
  /\ fn_args' = [fn |-> "validate_colocate", v |-> v, extended |-> extended]
  /\ fn_result' = [fn |-> "validate_colocate", status |-> validate_colocate(v, extended)]
  /\ UNCHANGED <<varVars, structVars>>

ValidateColocateDistributedVariableCall(v, extended) ==
  /\ fn_args' = [fn |-> "validate_colocate_distributed_variable", v |-> v, extended |-> extended]
  /\ fn_result' = [fn |-> "validate_colocate_distributed_variable", status |-> validate_colocate_distributed_variable(v, extended)]
  /\ UNCHANGED <<varVars, structVars>>

InitColocate == InitFixedVariable

NextColocate ==
  \/ \E v \in ColocateValues, extended \in Strategies : ValidateColocateCall(v, extended)
  \/ \E v \in ColocateValues, extended \in Strategies : ValidateColocateDistributedVariableCall(v, extended)

SpecColocate == InitColocate /\ [][NextColocate]_vars

\* The handle of every class of distributed variable, read in every context
InitHandle ==
  /\ InitVariable({"MirroredVariable", "SyncOnReadVariable", "TPUMirroredVariable", "TPUSyncOnReadVariable"}, {"none"})
  /\ aggregation = "NONE" /\ dtype = "float32"

NextHandle ==
  \/ \E s \in {"own", "other"} : EnterScope(s)
  \/ ExitScope
  \/ EnterTPUContext
  \/ ExitTPUContext
  \/ CallForEachReplica
  \/ ReplicasReturn
  \/ \E k \in Replicas : EnterUpdate(k)
  \/ ExitUpdate
  \/ \E rc \in Replicas \cup {NoReplicaId}, d \in 0..num_replicas : HandleCall(rc, d)

SpecHandle == InitHandle /\ [][NextHandle]_vars

\* A MirroredVariable saved and restored between assignments, some of them
\* made to one element in an update context
InitMirroredCheckpoint == InitVariable({"MirroredVariable"}, {"own"})

NextMirroredCheckpoint ==
  \/ \E k \in Replicas : EnterUpdate(k)
  \/ ExitUpdate
  \/ \E arg \in ConstArgs : AssignCall("assign", arg)
  \/ Save
  \/ Restore

SpecMirroredCheckpoint == InitMirroredCheckpoint /\ [][NextMirroredCheckpoint]_vars

\* The saver's two uses of a distributed variable: asking for its saveables,
\* and restoring from a list of tensors read from a checkpoint
RestoredTensors == UNION {[1..k -> 0..(MaxVal + 1)] : k \in 0..2}

GatherSaveablesCall ==
  /\ IsDistributedVariable(var_cls)
  /\ fn_args' = [fn |-> "_gather_saveables_for_checkpoint"]
  /\ fn_result' = [fn |-> "_gather_saveables_for_checkpoint",
                   saveables |-> gather_saveables_for_checkpoint(var_cls)]
  /\ UNCHANGED <<varVars, structVars>>

RestoreCall(restored_tensors) ==
  /\ Idle /\ IsDistributedVariable(var_cls)
  /\ Saveable_restore_defined(var_cls, restored_tensors, num_replicas, aggregation, dtype)
  /\ LET out == Saveable_restore(var_cls, restored_tensors, values, num_replicas, aggregation, dtype)
     IN /\ AllInRange(var_cls, out.values)
        /\ values' = out.values
        /\ result' = Result("restore", out.status, NoValue, NoReplicaId)
        /\ fn_args' = [fn |-> "restore", restored_tensors |-> restored_tensors]
        /\ fn_result' = [fn |-> "restore", status |-> out.status]
  /\ UNCHANGED structVars
  /\ UNCHANGED <<tpu_context, num_replicas, var_cls, aggregation, dtype, strategy_scope, in_replica,
                 update_replica_id, merge_op, merge_args, saved>>

InitSaveable == InitVariable({"MirroredVariable", "SyncOnReadVariable"}, {"own"})

NextSaveable ==
  \/ GatherSaveablesCall
  \/ \E restored_tensors \in RestoredTensors : RestoreCall(restored_tensors)

SpecSaveable == InitSaveable /\ [][NextSaveable]_vars

\* Creation of a variable: before it there is no variable and no element
InitCreate ==
  /\ num_replicas = 0
  /\ var_cls = NoVariable
  /\ aggregation = "NONE"
  /\ dtype = "float32"
  /\ values = <<>>
  /\ strategy_scope = "own"
  /\ in_replica = FALSE
  /\ update_replica_id = NoReplicaId
  /\ merge_op = NoOp
  /\ merge_args = <<>>
  /\ saved = NoValue
  /\ result = NoResult
  /\ tpu_context = FALSE
  /\ NoStructures

\* real_mirrored_creator makes n elements of one initial value
CreateMirroredVariableCall(kwargs, mirrored_cls, sync_on_read_cls, n, dt) ==
  /\ var_cls = NoVariable
  /\ LET out == create_mirrored_variable(kwargs, mirrored_cls, sync_on_read_cls)
     IN /\ fn_args' = [fn |-> "create_mirrored_variable", kwargs |-> kwargs,
                       mirrored_cls |-> mirrored_cls, sync_on_read_cls |-> sync_on_read_cls]
        /\ fn_result' = [fn |-> "create_mirrored_variable", status |-> out.status,
                         creator_called |-> out.creator_called]
        /\ IF out.creator_called
           THEN /\ num_replicas' = n
                /\ var_cls' = out.cls
                /\ aggregation' = out.aggregation
                /\ dtype' = dt
                /\ values' \in InitialValues(n, out.cls)
                /\ merge_args' = [i \in 0..(n - 1) |-> NoArg]
           ELSE UNCHANGED <<num_replicas, var_cls, aggregation, dtype, values, merge_args>>
  /\ UNCHANGED structVars
  /\ UNCHANGED <<tpu_context, strategy_scope, in_replica, update_replica_id, merge_op, saved, result>>

VariableClassPairs ==
  {<<"MirroredVariable", "SyncOnReadVariable">>, <<"TPUMirroredVariable", "TPUSyncOnReadVariable">>}

NextCreate ==
  \E kwargs \in Kwargs, classes \in VariableClassPairs, n \in 1..MaxReplicas, dt \in Dtypes :
     CreateMirroredVariableCall(kwargs, classes[1], classes[2], n, dt)

SpecCreate == InitCreate /\ [][NextCreate]_vars

\* regroup of per-replica values that differ in structure at one place: one
\* replica returned `other` where the rest returned `one`
RECURSIVE SameStructure(_, _)
SameStructure(a, b) ==
  IF ~IsNest(a) \/ ~IsNest(b)
  THEN ~IsNest(a) /\ ~IsNest(b)
  ELSE /\ a.kind = b.kind
       /\ Len(a.items) = Len(b.items)
       /\ KeySet(a) = KeySet(b)
       /\ IF a.kind = "dict"
          THEN \A key \in KeySet(a) : SameStructure(Lookup(a, key), Lookup(b, key))
          ELSE \A j \in 1..Len(a.items) : SameStructure(a.items[j], b.items[j])

SmallKinds == {"leaf", "list", "longer list", "tuple", "namedtuple", "dict", "dict of other keys"}

SmallValue(kind, k) ==
  LET x == Object(LocalObj(k - 1))
  IN CASE kind = "leaf" -> x
       [] kind = "list" -> List(<<x>>)
       [] kind = "longer list" -> List(<<x, x>>)
       [] kind = "tuple" -> Tuple(<<x>>)
       [] kind = "namedtuple" -> NamedTuple(<<x>>)
       [] kind = "dict" -> Dict(<<"a">>, <<x>>)
       [] kind = "dict of other keys" -> Dict(<<"b">>, <<x>>)

\* replica j holds the second kind of value, every other replica the first
MismatchedLeaves(n) ==
  {[k \in 1..n |-> SmallValue(IF k = j THEN b ELSE a, k)] :
     j \in 1..n, a \in SmallKinds, b \in SmallKinds}

RECURSIVE Embeddings(_, _, _)
Embeddings(c, depth, n) ==
  IF depth = 0
  THEN {c}
  ELSE LET inner == Embeddings(c, depth - 1, n)
       IN inner
          \cup {[k \in 1..n |-> List(<<Object(LocalObj(k - 1)), x[k]>>)] : x \in inner}
          \cup {[k \in 1..n |-> Dict(<<"a", "b">>, <<Object(ConstObj(1)), x[k]>>)] : x \in inner}

MismatchedNests(depth, n) ==
  {x \in UNION {Embeddings(c, depth - 2, n) : c \in MismatchedLeaves(n)} :
     \E k \in 2..n : ~SameStructure(x[k], x[1])}

InitRegroupMismatch ==
  /\ InitQuietVariable
  /\ num_replicas >= 2
  /\ NoCalls
  /\ rg_values \in MismatchedNests(MaxDepth, num_replicas)
  /\ wrap_class \in {"PerReplica", "Mirrored"}
  /\ regrouped = NoOutcome
  /\ selected = NoSelected
  /\ completed = {}
  /\ observed = {}

NextRegroupMismatch == RegroupCall

SpecRegroupMismatch == InitRegroupMismatch /\ [][NextRegroupMismatch]_vars

\* A PerReplica value flattened in every context of a strategy
PerReplicaValues(n) == {DistributedValue("PerReplica", vs) : vs \in [1..n -> 0..MaxVal]}

ToComponentsCall(value) ==
  /\ LET out == PerReplicaSpec_to_components(value, get_replica_context(strategy_scope, in_replica, num_replicas))
     IN /\ fn_args' = [fn |-> "_to_components", value |-> value]
        /\ fn_result' = [fn |-> "_to_components", status |-> out.status, components |-> out.value]
  /\ UNCHANGED <<varVars, structVars>>

InitComponents == InitVariable({"MirroredVariable"}, {"none"})

NextComponents ==
  \/ EnterScope("own")
  \/ ExitScope
  \/ CallForEachReplica
  \/ ReplicasReturn
  \/ \E k \in Replicas : EnterUpdate(k)
  \/ ExitUpdate
  \/ \E value \in PerReplicaValues(num_replicas) : ToComponentsCall(value)

SpecComponents == InitComponents /\ [][NextComponents]_vars

\* Cross-replica assignments of a SyncOnReadVariable whose argument is kept,
\* between writes made by the replicas and cross-replica reads
AssignCallOf(op, arg) ==
  /\ ~in_replica
  /\ VarAssignDefined(op, arg, NoReplicaId)
  /\ LET out == VarAssign(op, arg, NoReplicaId)
     IN /\ AllInRange(var_cls, out.values)
        /\ values' = out.values
        /\ result' = Result(op, out.status, out.value, NoReplicaId)
  /\ fn_args' = [fn |-> op, arg |-> arg]
  /\ fn_result' = NoCall
  /\ UNCHANGED structVars
  /\ UNCHANGED <<tpu_context, num_replicas, var_cls, aggregation, dtype, strategy_scope, in_replica,
                 update_replica_id, merge_op, merge_args, saved>>

InitSyncOnReadAssign == InitVariable({"SyncOnReadVariable"}, {"own"})

NextSyncOnReadAssign ==
  \/ CallForEachReplica
  \/ ReplicasReturn
  \/ \E i \in Replicas, arg \in ConstArgs : ReplicaAssignCall(i, "assign_sub", arg)
  \/ \E op \in AssignOps, arg \in ConstArgs : AssignCallOf(op, arg)
  \/ GetCall(NoReplicaId, 0)

SpecSyncOnReadAssign == InitSyncOnReadAssign /\ [][NextSyncOnReadAssign]_vars

\* A MirroredVariable assigned inside and outside the update of one replica
InitMirroredUpdate ==
  /\ InitVariable({"MirroredVariable"}, {"own"})
  /\ dtype = "float32"

NextMirroredUpdate ==
  \/ \E k \in Replicas : EnterUpdate(k)
  \/ ExitUpdate
  \/ \E op \in AssignOps, arg \in ConstArgs : AssignCall(op, arg)

SpecMirroredUpdate == InitMirroredUpdate /\ [][NextMirroredUpdate]_vars

\* The operations of the TPU variants, called in every context of a strategy
\* scope; the call and its outcome are kept
OperationCall(name, arg, replica_context, device) ==
  /\ IF in_replica
     THEN replica_context \in Replicas /\ merge_args[replica_context] = NoArg
     ELSE replica_context = NoReplicaId
  /\ name \in AssignOps =>
       /\ merge_op \in {NoOp, name}
       /\ VarAssignDefined(name, arg, replica_context)
  /\ LET out == TPUVariableMixin_operation(var_cls, name, arg, values, num_replicas, aggregation, dtype, strategy_scope, replica_context, update_replica_id, device, tpu_context)
     IN /\ fn_args' = [fn |-> name, arg |-> arg, replica_context |-> replica_context, device |-> device]
        /\ fn_result' = [fn |-> name, status |-> out.status, value |-> out.value]
        /\ IF out.status = "merge_call"
           THEN /\ merge_args' = [merge_args EXCEPT ![replica_context] = arg]
                /\ merge_op' = name
                /\ UNCHANGED <<values, result>>
           ELSE /\ AllInRange(var_cls, out.values)
                /\ values' = out.values
                /\ result' = Result(name, out.status, out.value, replica_context)
                /\ UNCHANGED <<merge_args, merge_op>>
  /\ UNCHANGED structVars
  /\ UNCHANGED <<tpu_context, num_replicas, var_cls, aggregation, dtype, strategy_scope, in_replica,
                 update_replica_id, saved>>

InitTPU ==
  /\ InitVariable({"TPUMirroredVariable", "TPUSyncOnReadVariable"}, {"own", "other"})
  /\ num_replicas = 2
  /\ aggregation \in {"NONE", "SUM"} /\ dtype = "float32"

NextTPU ==
  \/ EnterTPUContext
  \/ ExitTPUContext
  \/ CallForEachReplica
  \/ ReplicasReturn
  \/ \E k \in Replicas : EnterUpdate(k)
  \/ ExitUpdate
  \/ MergeCall
  \/ \E name \in ReadOperations, rc \in Replicas \cup {NoReplicaId}, d \in {1, num_replicas} : OperationCall(name, NoArg, rc, d)
  \/ \E name \in AssignOps, rc \in Replicas \cup {NoReplicaId} : OperationCall(name, [obj |-> ConstObj(1), val |-> 1], rc, 0)

SpecTPU == InitTPU /\ [][NextTPU]_vars

\* An AggregatingVariable: one wrapped variable updated by every replica
InitAggregating ==
  /\ num_replicas \in 1..MaxReplicas
  /\ var_cls = "AggregatingVariable"
  /\ aggregation \in Aggregations
  /\ dtype \in Dtypes
  /\ values \in [{0} -> Values]
  /\ strategy_scope = "none"
  /\ in_replica = FALSE
  /\ update_replica_id = NoReplicaId
  /\ merge_op = NoOp
  /\ merge_args = [i \in 0..(num_replicas - 1) |-> NoArg]
  /\ saved = NoValue
  /\ result = NoResult
  /\ tpu_context = FALSE
  /\ NoStructures

NextAggregating ==
  \/ \E s \in {"own", "other"} : EnterScope(s)
  \/ ExitScope
  \/ CallForEachReplica
  \/ ReplicasReturn
  \/ \E k \in Replicas : EnterUpdate(k)
  \/ ExitUpdate
  \/ \E op \in AssignOps, arg \in ConstArgs : AssignCall(op, arg)
  \/ \E i \in Replicas, op \in AssignOps : \E arg \in ReplicaArgs(i) : ReplicaAssignCall(i, op, arg)
  \/ MergeCall

SpecAggregating == InitAggregating /\ [][NextAggregating]_vars

\* regroup of leaves that are all elements of distributed variables: of the
\* variable under test, of a second one, or of one that no longer exists
ElementLeaves(n) ==
  LET elements == {ElementOf(c, i) : c \in {TheVariableId, OtherVariableId, GoneVariableId}, i \in 0..(n - 1)}
  IN {vs \in [1..n -> elements] : \A k \in 1..n : vs[k].id \in {0, k - 1}}

InitRegroupElements ==
  /\ InitQuietVariable
  /\ NoCalls
  /\ \E vs \in ElementLeaves(num_replicas) :
       rg_values \in {vs, [k \in 1..num_replicas |-> Tuple(<<vs[k], Object(ConstObj(1))>>)]}
  /\ wrap_class \in {"PerReplica", "Mirrored"}
  /\ regrouped = NoOutcome
  /\ selected = NoSelected
  /\ completed = {}
  /\ observed = {}

NextRegroupElements == RegroupCall

SpecRegroupElements == InitRegroupElements /\ [][NextRegroupElements]_vars

\* The initializers of the elements run one by one; is_initialized is called
\* at any point between them
RunInitializer(i) ==
  /\ i \notin completed
  /\ completed' = completed \cup {i}
  /\ UNCHANGED <<rg_values, wrap_class, regrouped, selected, observed>>
  /\ UNCHANGED <<varVars, callVars>>

IsInitializedCall(name) ==
  /\ fn_args' = [fn |-> "is_initialized", name |-> name]
  /\ fn_result' = [fn |-> "is_initialized", status |-> "ok", value |-> DistributedVariable_is_initialized(num_replicas, name)]
  /\ UNCHANGED <<varVars, structVars>>

InitInitialized == InitQuietVariable /\ NoStructures

NextInitialized ==
  \/ \E i \in Replicas : RunInitializer(i)
  \/ \E name \in Names : IsInitializedCall(name)

SpecInitialized == InitInitialized /\ [][NextInitialized]_vars

\* The life of a distributed variable and of its elements: the creator's
\* variables (rg_values holds them, one per replica) are taken by a new
\* distributed variable, the variable is dropped while its elements are kept,
\* and value_container is asked about any object at any time
InitContainerLife ==
  /\ num_replicas \in 1..MaxReplicas
  /\ var_cls = NoVariable
  /\ aggregation = "NONE"
  /\ dtype = "float32"
  /\ values = [i \in 0..(num_replicas - 1) |-> 0]
  /\ strategy_scope = "own"
  /\ in_replica = FALSE
  /\ update_replica_id = NoReplicaId
  /\ merge_op = NoOp
  /\ merge_args = [i \in 0..(num_replicas - 1) |-> NoArg]
  /\ saved = NoValue
  /\ result = NoResult
  /\ tpu_context = FALSE
  /\ NoCalls
  /\ rg_values = [k \in 1..num_replicas |-> RawVariable(k - 1)]
  /\ wrap_class = "PerReplica"
  /\ regrouped = NoOutcome
  /\ selected = NoSelected
  /\ completed = {}
  /\ observed = {}

\* DistributedVariable.__init__(strategy, values)
ConstructVariable(cls) ==
  /\ var_cls = NoVariable
  /\ var_cls' = cls
  /\ rg_values' = [k \in 1..num_replicas |-> ElementOf(TheVariableId, rg_values[k].id)]
  /\ UNCHANGED <<wrap_class, regrouped, selected, completed, observed>>
  /\ UNCHANGED callVars
  /\ UNCHANGED <<tpu_context, num_replicas, aggregation, dtype, values, strategy_scope, in_replica,
                 update_replica_id, merge_op, merge_args, saved, result>>

\* the last reference to the distributed variable goes away
DropVariable ==
  /\ var_cls # NoVariable
  /\ var_cls' = NoVariable
  /\ UNCHANGED <<structVars, callVars>>
  /\ UNCHANGED <<tpu_context, num_replicas, aggregation, dtype, values, strategy_scope, in_replica,
                 update_replica_id, merge_op, merge_args, saved, result>>

\* the objects value_container is asked about
ContainerArguments ==
  {rg_values[k] : k \in 1..num_replicas}
  \cup {Object(ConstObj(1)), DistributedValue("Mirrored", [k \in 1..num_replicas |-> Object(LocalObj(k - 1))])}
  \cup (IF var_cls # NoVariable THEN {TheVariable} ELSE {})

ValueContainerCall(val) ==
  /\ fn_args' = [fn |-> "value_container", val |-> val]
  /\ fn_result' = [fn |-> "value_container", status |-> "ok", value |-> value_container(val)]
  /\ UNCHANGED <<varVars, structVars>>

NextContainerLife ==
  \/ \E cls \in {"MirroredVariable", "SyncOnReadVariable"} : ConstructVariable(cls)
  \/ DropVariable
  \/ \E val \in ContainerArguments : ValueContainerCall(val)

SpecContainerLife == InitContainerLife /\ [][NextContainerLife]_vars

\* Mirrored and sync-on-read variables written in every context, under their
\* own strategy and another
InitMutation == InitVariable({"MirroredVariable", "SyncOnReadVariable"}, {"none"})

NextMutation ==
  \/ \E s \in {"own", "other"} : EnterScope(s)
  \/ ExitScope
  \/ CallForEachReplica
  \/ ReplicasReturn
  \/ \E op \in AssignOps, arg \in ConstArgs : AssignCall(op, arg)
  \/ \E i \in Replicas, op \in AssignOps : \E arg \in ReplicaArgs(i) : ReplicaAssignCall(i, op, arg)
  \/ MergeCall

SpecMutation == InitMutation /\ [][NextMutation]_vars

\* read_value and the assign functions called with no strategy scope, in the
\* scope of the variable's strategy and in another's; the scope the call
\* leaves behind is the one its guard leaves
GuardedCall(name, arg, replica_context) ==
  /\ IF in_replica
     THEN replica_context \in Replicas /\ merge_args[replica_context] = NoArg
     ELSE replica_context = NoReplicaId
  /\ name \in AssignOps =>
       /\ merge_op \in {NoOp, name}
       /\ VarAssignDefined(name, arg, replica_context)
  /\ LET out == DistributedVariable_operation(var_cls, name, arg, values, num_replicas, aggregation, dtype, strategy_scope, replica_context, update_replica_id, 0)
     IN /\ fn_args' = [fn |-> name, arg |-> arg, replica_context |-> replica_context]
        /\ fn_result' = [fn |-> name, status |-> out.status, value |-> out.value]
        /\ strategy_scope' = with_enter_or_assert_strategy(strategy_scope, out.status)
        /\ IF out.status = "merge_call"
           THEN /\ merge_args' = [merge_args EXCEPT ![replica_context] = arg]
                /\ merge_op' = name
                /\ UNCHANGED <<values, result>>
           ELSE /\ AllInRange(var_cls, out.values)
                /\ values' = out.values
                /\ result' = Result(name, out.status, out.value, replica_context)
                /\ UNCHANGED <<merge_args, merge_op>>
  /\ UNCHANGED structVars
  /\ UNCHANGED <<tpu_context, num_replicas, var_cls, aggregation, dtype, in_replica,
                 update_replica_id, saved>>

InitScope ==
  /\ InitVariable({"MirroredVariable", "SyncOnReadVariable"}, {"none"})
  /\ num_replicas = 2 /\ dtype = "float32"

NextScope ==
  \/ \E s \in {"own", "other"} : EnterScope(s)
  \/ ExitScope
  \/ CallForEachReplica
  \/ ReplicasReturn
  \/ MergeCall
  \/ \E rc \in Replicas \cup {NoReplicaId} : GuardedCall("read_value", NoArg, rc)
  \/ \E op \in AssignOps, rc \in Replicas \cup {NoReplicaId} : GuardedCall(op, [obj |-> ConstObj(1), val |-> 1], rc)

SpecScope == InitScope /\ [][NextScope]_vars

\* ---------------------------------------------------------------- claims
AllElementsEqual == \A i \in Replicas : values[i] = values[0]

AllArrived == \A i \in Replicas : merge_args[i] # NoArg

\* C1: the elements of a MirroredVariable, equal at creation, are equal after
\* every completed assign / assign_add / assign_sub made through the container
\* in cross-replica context with no update replica id, or in replica context
\* once the merge has completed (SpecMirrored makes exactly these calls).
C1_MirroredElementsStayEqual ==
  var_cls = "MirroredVariable" => AllElementsEqual

C1_Witness ==
  /\ var_cls = "MirroredVariable" /\ num_replicas >= 2
  /\ in_replica /\ result.op = "assign_sub" /\ result.status = "ok"
  /\ aggregation = "MEAN" /\ merge_op = NoOp
  /\ values[num_replicas - 1] = 0 - 1

\* C2: with aggregation SUM, the merge of the replicas' assign_add(v_i) calls
\* leaves every element at its prior value plus the sum of all the v_i.
C2_SumMergeAddsTotal ==
  [][(/\ in_replica /\ AllArrived
      /\ aggregation = "SUM" /\ merge_op = "assign_add"
      /\ merge_op' = NoOp)
     => (/\ result'.status = "ok"
         /\ \A i \in Replicas :
              values'[i] = values[i] + SumOf(ArgVals(merge_args, num_replicas), num_replicas))]_vars

C2_Witness ==
  /\ var_cls = "MirroredVariable" /\ aggregation = "SUM"
  /\ num_replicas = MaxReplicas
  /\ in_replica /\ merge_op = NoOp
  /\ result.op = "assign_add" /\ result.status = "ok"
  /\ \A i \in Replicas : values[i] = MaxReplicas

\* C3: get() called while the current replica id is i (by replica i, or in an
\* update for replica i) returns the i-th value of the container, whatever
\* its class.
C3_GetReturnsReplicaValue ==
  result.op = "get" =>
    /\ in_replica => result.status = "ok" /\ result.value = Elem(result.rid)
    /\ (~in_replica /\ update_replica_id # NoReplicaId) =>
         result.status = "ok" /\ result.value = Elem(update_replica_id)

C3_Witness ==
  /\ result.op = "get" /\ var_cls = "PerReplica" /\ num_replicas = MaxReplicas
  /\ in_replica /\ result.rid = MaxReplicas - 1
  /\ result.value = Elem(MaxReplicas - 1)
  /\ values[MaxReplicas - 1] # values[0]

\* C4: a SyncOnReadVariable with aggregation SUM, read in the cross-replica
\* context of its strategy, returns the sum of the elements' current values.
C4_SumReadReturnsSum ==
  (/\ var_cls = "SyncOnReadVariable" /\ aggregation = "SUM"
   /\ result.op = "get" /\ Idle /\ strategy_scope # "other")
  => (/\ result.status = "ok"
      /\ result.value = Tensor(SumOf(values, num_replicas)))

C4_Witness ==
  /\ var_cls = "SyncOnReadVariable" /\ aggregation = "SUM"
  /\ num_replicas = MaxReplicas
  /\ result.op = "get" /\ Idle /\ result.status = "ok"
  /\ values[0] = 1 /\ values[1] = 0 - 1 /\ values[2] = 1
  /\ result.value = Tensor(1)

SaveThenRestore ==
  /\ var_cls = "SyncOnReadVariable" /\ aggregation = "SUM"
  /\ result.op = "save" /\ result.status = "ok"
  /\ result'.op = "restore"

\* C5 (as amended): a save followed by a restore of the saved tensor gives
\* every element the saved sum divided by the number of elements (cast to the
\* dtype); the elements hold again what they held before the save when they
\* were all equal at the save.
C5_RoundTripRestoresEqualElements ==
  [][SaveThenRestore =>
       (/\ \A i \in Replicas :
             values'[i] = DivideAndCast(SumOf(values, num_replicas), num_replicas, dtype)
        /\ AllElementsEqual => values' = values)]_vars

C5_Witness ==
  /\ var_cls = "SyncOnReadVariable" /\ aggregation = "SUM"
  /\ num_replicas = MaxReplicas
  /\ result.op = "restore" /\ saved = Tensor(MaxReplicas)
  /\ \A i \in Replicas : values[i] = 1

\* C5 as stated: the round trip leaves every element holding the value it
\* held before the save.
C5_Original_RoundTripPreservesElements ==
  [][SaveThenRestore => values' = values]_vars

\* C6 as stated: for every dtype the sum over the elements after save-then-
\* restore equals the sum before the save.
C6_RoundTripPreservesSum ==
  [][SaveThenRestore =>
       SumOf(values', num_replicas) = SumOf(values, num_replicas)]_vars

\* C7: assign_add and assign_sub called in the cross-replica context of the
\* variable's strategy are rejected with a ValueError exactly when the
\* aggregation is SUM, whatever the argument; under every other aggregation
\* the call is accepted.
C7_SumRejectsCrossReplicaAdd ==
  (/\ var_cls = "SyncOnReadVariable"
   /\ result.op \in {"assign_add", "assign_sub"}
   /\ ~in_replica /\ strategy_scope # "other")
  => result.status = (IF aggregation = "SUM" THEN "ValueError" ELSE "ok")

C7_Witness ==
  /\ var_cls = "SyncOnReadVariable" /\ aggregation = "SUM"
  /\ result.op = "assign_sub" /\ result.status = "ValueError"
  /\ ~in_replica /\ num_replicas = MaxReplicas
  /\ values[0] # values[1]

\* ---- C8: in update_regroup with group=True, a returned result is seen ready
\* only when every replica's update at that place of the nest has completed.
C8_ObservedImpliesAllUpdated ==
  (wrap_class = "_make_grouped_mirrored" /\ regrouped.status = "ok") =>
     \A o \in observed : \A k \in 1..num_replicas :
        At(rg_values[k], o[1]).id \in completed

\* three tensor results, grouped, and a value of the returned Mirrored seen
C8_Witness ==
  /\ wrap_class = "_make_grouped_mirrored" /\ regrouped.status = "ok"
  /\ num_replicas >= 3
  /\ \A k \in 1..num_replicas : rg_values[k].kind = "tensor" /\ rg_values[k].id = k - 1
  /\ regrouped.value.kind = "Mirrored"
  /\ <<<<>>, 1>> \in observed

\* ---- C9 (as the code has it): regroup followed by select_replica(i, ...)
\* gives the nest of replica i with, at every leaf that is a component of the
\* distributed variable, that variable itself; leaves that are objects a
\* replica made, one shared object or the variable itself come back as given.
SelectedAfterRegroup(op) ==
  /\ regrouped.status = "ok"
  /\ selected.op = op
  /\ selected.status = "ok"

C9_RoundTripUpToContainers ==
  selected.op = "select_replica" =>
     LET original == rg_values[selected.rid + 1]
     IN /\ regrouped.status = "ok" /\ selected.status = "ok"
        /\ Shape(selected.value) = Shape(original)
        /\ \A p \in LeafPaths(original) :
              At(selected.value, p) = IF At(original, p).kind = "component"
                                      THEN TheVariable
                                      ELSE At(original, p)

\* a nest of the full depth with each kind of leaf, read back for replica 1
C9_Witness ==
  /\ SelectedAfterRegroup("select_replica")
  /\ selected.rid = 1
  /\ Depth(rg_values[2]) = MaxDepth
  /\ \E x \in Leaves(rg_values[2]) : x.kind = "component"
  /\ \E x \in Leaves(rg_values[2]) : x = Object(LocalObj(1))
  /\ \E x \in Leaves(regrouped.value) : x.kind = wrap_class

\* C9 as stated: the round trip reproduces the nest of replica i, whatever
\* the leaves are
C9_Original_RoundTripReproduces ==
  selected.op = "select_replica" =>
     /\ regrouped.status = "ok" /\ selected.status = "ok"
     /\ selected.value = rg_values[selected.rid + 1]

\* ---- C10 (as the code has it): select_replica_mirrored(i, structured) raises
\* TypeError exactly when some leaf is a DistributedValues that is not
\* Mirrored (a PerReplica, a SyncOnReadVariable); otherwise it returns
\* values[i] at every Mirrored leaf and the leaf itself everywhere else.
NotMirroredLeaf(x) == IsDistributedValues(x.kind) /\ ~IsMirrored(x.kind)

ReplicaElements(structured, out, i) ==
  /\ Shape(out) = Shape(structured)
  /\ \A p \in LeafPaths(structured) :
        At(out, p) = IF IsDistributedValues(At(structured, p).kind)
                     THEN At(structured, p).vals[i + 1]
                     ELSE At(structured, p)

C10_FailsOnNonMirroredLeaf ==
  selected.op = "select_replica_mirrored" =>
     IF \E x \in Leaves(regrouped.value) : NotMirroredLeaf(x)
     THEN selected.status = "TypeError"
     ELSE selected.status = "ok" /\ ReplicaElements(regrouped.value, selected.value, selected.rid)

\* a SyncOnReadVariable leaf and no PerReplica leaf: the call raises
C10_Witness ==
  /\ selected.op = "select_replica_mirrored"
  /\ selected.status = "TypeError"
  /\ \E x \in Leaves(regrouped.value) : x.kind = "SyncOnReadVariable"
  /\ \A x \in Leaves(regrouped.value) : x.kind # "PerReplica"
  /\ \E x \in Leaves(regrouped.value) : x.kind = "Mirrored"

\* C10 as stated: the call fails when some leaf is a PerReplica and otherwise
\* succeeds with the replica's elements
C10_Original_FailsOnlyOnPerReplica ==
  selected.op = "select_replica_mirrored" =>
     IF \E x \in Leaves(regrouped.value) : x.kind = "PerReplica"
     THEN selected.status = "TypeError"
     ELSE selected.status = "ok" /\ ReplicaElements(regrouped.value, selected.value, selected.rid)

\* ---- C11: assign, assign_add or assign_sub on a MirroredVariable in replica
\* context with aggregation NONE raises ValueError; no replica's argument is
\* handed to merge_call and no element changes.
C11_NoneAggregationRejectedInReplica ==
  [][(in_replica /\ in_replica' /\ aggregation = "NONE") =>
        /\ values' = values
        /\ merge_op' = NoOp
        /\ \A i \in Replicas : merge_args'[i] = NoArg
        /\ result' # result => (result'.op \in AssignOps /\ result'.status = "ValueError")]_vars

C11_Witness ==
  /\ in_replica /\ aggregation = "NONE" /\ var_cls = "MirroredVariable"
  /\ result.op = "assign_add" /\ result.status = "ValueError" /\ result.rid = 1

\* ---- C12 (as the code has it): assign, assign_add and assign_sub of every
\* kind of variable run under the owning strategy: with no scope active the
\* call does what it does inside the owning scope, and with another
\* strategy's scope active it raises RuntimeError and writes nothing.  The
\* exceptions write under any scope: a checkpoint restore, and a
\* TPUSyncOnReadVariable assigned inside a TPU context.
RawTPUWrite == var_cls = "TPUSyncOnReadVariable" /\ tpu_context

EntersOwnScope ==
  \A op \in AssignOps, arg \in ConstArgs :
     Variable_assign(var_cls, op, arg, values, num_replicas, aggregation, dtype, "none", NoReplicaId, update_replica_id, tpu_context)
       = Variable_assign(var_cls, op, arg, values, num_replicas, aggregation, dtype, "own", NoReplicaId, update_replica_id, tpu_context)

C12_AssignGuardedByStrategy ==
  [][/\ EntersOwnScope
     /\ (strategy_scope = "other" /\ values' # values) => (result'.op = "restore" \/ RawTPUWrite)
     /\ (strategy_scope = "other" /\ result' # result /\ result'.op \in AssignOps /\ ~RawTPUWrite)
           => result'.status = "RuntimeError"]_vars

C12_Witness ==
  /\ strategy_scope = "other" /\ var_cls = "AggregatingVariable"
  /\ result.op = "assign" /\ result.status = "RuntimeError"

\* C12 as stated: under another strategy's scope no entry point, restore
\* included, writes an element
C12_Original_NoWriteUnderForeignScope ==
  [][strategy_scope = "other" => values' = values]_vars

\* ---- C13: validate_colocate(v, extended) succeeds for a variable created
\* under the strategy extended belongs to, and raises ValueError for a
\* variable of another strategy and for a value with no owning strategy.
C13_ColocateOnlyWithOwnStrategy ==
  fn_result.fn = "validate_colocate" =>
     LET v == fn_args.v
     IN /\ v.strategy = fn_args.extended => fn_result.status = "ok"
        /\ (v.strategy \in Strategies /\ v.strategy # fn_args.extended) => fn_result.status = "ValueError"
        /\ v.strategy = NoStrategy => fn_result.status = "ValueError"

C13_Witness ==
  /\ fn_result.fn = "validate_colocate" /\ fn_result.status = "ValueError"
  /\ fn_args.v.strategy = 1 /\ fn_args.extended = 2

\* ---- C14: for a Mirrored container (a MirroredVariable included) whose
\* elements are equal, get() with no replica id and no update replica id
\* returns a value equal to every element, on whichever device it is called.
C14_MirroredCrossReplicaGet ==
  (/\ result.op = "get" /\ IsMirrored(var_cls) /\ AllElementsEqual
   /\ ~in_replica /\ update_replica_id = NoReplicaId) =>
     /\ result.status = "ok"
     /\ result.value[1] = "elem" => result.value[2] \in Replicas
     /\ \A k \in Replicas :
           values[k] = IF result.value[1] = "elem" THEN values[result.value[2]] ELSE result.value[2]

\* read on the device of the last element
C14_Witness ==
  /\ result.op = "get" /\ var_cls = "Mirrored" /\ AllElementsEqual
  /\ ~in_replica /\ update_replica_id = NoReplicaId
  /\ num_replicas = MaxReplicas
  /\ result.status = "ok" /\ result.value = Elem(MaxReplicas - 1)

\* ---- C15 (as the code has it): the handle of a MirroredVariable or a
\* SyncOnReadVariable is that of the current replica's element while a replica
\* id is active, and reading it raises ValueError with no replica id and no
\* update replica id.  The handle of a TPU variant never raises: outside a TPU
\* context it is the handle of the closest element, inside one the replicated
\* handle.
CurrentReplicaId == get_current_replica_id_as_int(result.rid, update_replica_id)

C15_HandleNeedsReplicaId ==
  result.op = "handle" =>
     IF IsTPUVariable(var_cls)
     THEN /\ result.status = "ok"
          /\ tpu_context => result.value = ReplicatedHandle
          /\ (~tpu_context /\ CurrentReplicaId # NoReplicaId) => result.value = Handle(CurrentReplicaId)
     ELSE IF CurrentReplicaId # NoReplicaId
          THEN result.status = "ok" /\ result.value = Handle(CurrentReplicaId)
          ELSE result.status = "ValueError"

C15_Witness ==
  /\ result.op = "handle" /\ var_cls = "SyncOnReadVariable"
  /\ ~in_replica /\ update_replica_id = NoReplicaId
  /\ result.status = "ValueError"

\* C15 as stated: the handle of every distributed variable, the TPU variants
\* included, is read successfully exactly while a replica id is active
C15_Original_EveryHandleNeedsReplicaId ==
  result.op = "handle" => (result.status = "ok" <=> CurrentReplicaId # NoReplicaId)

\* ---- C16: restoring a MirroredVariable writes the restored tensor to every
\* element, so that all elements equal it afterwards; a save followed by a
\* restore, with the elements equal at the save, leaves every element as it was.
C16_MirroredRestoreWritesEveryElement ==
  [][(var_cls = "MirroredVariable" /\ result'.op = "restore") =>
        /\ \A i \in Replicas : Tensor(values'[i]) = saved
        /\ (result.op = "save" /\ result.status = "ok" /\ AllElementsEqual) => values' = values]_vars

C16_Witness ==
  /\ var_cls = "MirroredVariable" /\ num_replicas = MaxReplicas
  /\ result.op = "restore" /\ saved = Tensor(2)
  /\ \A i \in Replicas : values[i] = 2

\* ---- C17: for every replica count and for both MirroredVariable and
\* SyncOnReadVariable, the saveables of the variable hold exactly one tensor
\* entry, named by the common name, and restore succeeds exactly when it is
\* given one tensor (any other number is an error).
SavedEntries(saveables) ==
  {e \in (DOMAIN saveables) \X (1..MaxReplicas) : e[2] \in DOMAIN saveables[e[1]].specs}

C17_OneSavedEntryOneRestoredTensor ==
  /\ fn_result.fn = "_gather_saveables_for_checkpoint" =>
       /\ Cardinality(SavedEntries(fn_result.saveables)) = 1
       /\ \A e \in SavedEntries(fn_result.saveables) :
             /\ fn_result.saveables[e[1]].specs[e[2]].name = common_name
             /\ fn_result.saveables[e[1]].name = common_name
             /\ Len(fn_result.saveables[e[1]].specs) = 1
  /\ fn_result.fn = "restore" =>
       (fn_result.status = "ok" <=> Len(fn_args.restored_tensors) = 1)
  /\ (fn_result.fn = "restore" /\ fn_result.status # "ok") => fn_result.status = "ValueError"

C17_Witness ==
  /\ num_replicas = MaxReplicas /\ var_cls = "SyncOnReadVariable"
  /\ fn_result.fn = "restore" /\ fn_result.status = "ValueError"
  /\ Len(fn_args.restored_tensors) = 2

\* ---- C18: create_mirrored_variable picks the class from the synchronization
\* option: ON_READ gives the sync-on-read class; ON_WRITE, AUTO or no option
\* gives the mirrored class; NONE, any other synchronization, or an aggregation
\* outside {NONE, SUM, MEAN, ONLY_FIRST_REPLICA} is an error raised before the
\* element creator is called, so that no element exists afterwards.
RejectedOptions(kwargs) ==
  \/ kwargs.synchronization \notin {"ON_READ", "ON_WRITE", "AUTO", Absent}
  \/ kwargs.aggregation \notin {"NONE", "SUM", "MEAN", "ONLY_FIRST_REPLICA", Absent}

C18_CreationSelectsPolicyOrRejects ==
  fn_result.fn = "create_mirrored_variable" =>
    IF RejectedOptions(fn_args.kwargs)
    THEN /\ fn_result.status # "ok"
         /\ ~fn_result.creator_called
         /\ var_cls = NoVariable /\ num_replicas = 0 /\ values = <<>>
    ELSE /\ fn_result.status = "ok"
         /\ num_replicas >= 1
         /\ var_cls = IF fn_args.kwargs.synchronization = "ON_READ"
                      THEN fn_args.sync_on_read_cls ELSE fn_args.mirrored_cls

C18_Witness ==
  /\ fn_result.fn = "create_mirrored_variable"
  /\ fn_args.kwargs.synchronization = "ON_WRITE" /\ fn_args.kwargs.aggregation = "other"
  /\ fn_result.status = "ValueError" /\ var_cls = NoVariable

\* ---- C19: regroup fails with an error whenever the per-replica inputs are
\* not structurally identical at some level (a different container kind, a
\* leaf against a list, tuple or dict, different lengths, different key sets):
\* it never returns a result for them.
C19_MismatchAlwaysFails ==
  (regrouped # NoOutcome /\ \E k \in 2..Len(rg_values) : ~SameStructure(rg_values[k], rg_values[1])) =>
     regrouped.status # "ok"

\* ---- C20 (as the code has it): flattening a PerReplica value into its
\* components is rejected with ValueError when called in replica context while
\* more than one replica is in sync; in cross-replica context, with no strategy
\* scope active, and with one replica it returns the per-replica values.
ToComponentsStep == fn_result'.fn = "_to_components" /\ varVars' = varVars

C20_FlatteningRejectedInReplicaContext ==
  [][ToComponentsStep =>
        IF in_replica /\ num_replicas > 1
        THEN fn_result'.status = "ValueError"
        ELSE fn_result'.status = "ok" /\ fn_result'.components = fn_args'.value.vals]_vars

C20_Witness ==
  /\ fn_result.fn = "_to_components" /\ fn_result.status = "ok"
  /\ strategy_scope = "own" /\ ~in_replica /\ update_replica_id = NoReplicaId
  /\ num_replicas = MaxReplicas

\* C20 as stated: rejected in cross-replica context while more than one
\* replica is in sync, allowed outside cross-replica context
C20_Original_RejectedInCrossReplicaContext ==
  [][ToComponentsStep =>
        IF get_replica_context(strategy_scope, in_replica, num_replicas) = NoReplicaContext
        THEN num_replicas > 1 => fn_result'.status = "ValueError"
        ELSE fn_result'.status = "ok"]_vars

\* ---- C21 as stated: for a SyncOnReadVariable with aggregation SUM, the
\* cross-replica read that follows a cross-replica assign(v) returns v, for
\* every value v of the dtype and every number of elements.
AssignedThenRead ==
  /\ var_cls = "SyncOnReadVariable" /\ aggregation = "SUM" /\ ~in_replica
  /\ result.op = "assign" /\ result.status = "ok" /\ fn_args.fn = "assign"
  /\ result'.op = "get"

C21_SumAssignThenReadReturnsValue ==
  [][AssignedThenRead => result'.value = Tensor(fn_args.arg.val)]_vars

\* ---- C30: for a SyncOnReadVariable whose aggregation is not SUM, assign(v)
\* and assign_add(v) in cross-replica context apply the value v itself to
\* every element (assign leaves every element equal to v, assign_add adds v to
\* each), and no merge is started.
C30_NonSumCrossReplicaAssignIsLiteral ==
  [][(/\ var_cls = "SyncOnReadVariable" /\ aggregation # "SUM" /\ ~in_replica
      /\ result'.op \in {"assign", "assign_add"})
     => (/\ result'.status = "ok"
         /\ \A i \in Replicas :
              values'[i] = (IF result'.op = "assign" THEN 0 ELSE values[i]) + fn_args'.arg.val
         /\ merge_op' = NoOp
         /\ \A i \in Replicas : merge_args'[i] = NoArg)]_vars

C30_Witness ==
  /\ var_cls = "SyncOnReadVariable" /\ aggregation = "MEAN" /\ num_replicas = MaxReplicas
  /\ ~in_replica /\ result.op = "assign_add" /\ result.status = "ok"
  /\ fn_args.fn = "assign_add" /\ fn_args.arg.val = 1
  /\ values[0] = 0 /\ values[1] = 1 /\ values[2] = 1

\* ---- C22: assign, assign_add or assign_sub of a SyncOnReadVariable called by
\* replica i in replica context applies the operation to element i and leaves
\* every other element as it was; it succeeds whatever the aggregation and
\* starts no merge.
C22_ReplicaWriteTouchesOwnElementOnly ==
  [][(var_cls = "SyncOnReadVariable" /\ in_replica /\ in_replica' /\ result'.op \in AssignOps)
     => (/\ result'.status = "ok"
         /\ \A j \in Replicas : j # result'.rid => values'[j] = values[j]
         /\ \E arg \in ConstArgs :
              values'[result'.rid] = assign_on_device(result'.op, values[result'.rid], arg.val)
         /\ merge_op' = NoOp
         /\ \A j \in Replicas : merge_args'[j] = NoArg)]_vars

C22_Witness ==
  /\ var_cls = "SyncOnReadVariable" /\ aggregation = "SUM" /\ num_replicas = MaxReplicas
  /\ in_replica /\ result.op = "assign_add" /\ result.status = "ok" /\ result.rid = 1
  /\ values[0] = 0 /\ values[1] = 1 /\ values[2] = 0

\* ---- C23: assign, assign_add or assign_sub of a MirroredVariable called in
\* cross-replica context inside the update of replica k applies the operation
\* to element k only: every other element is left as it was, the call
\* succeeds under every aggregation, and no merge is started.
C23_UpdateContextWritesOneElement ==
  [][(/\ var_cls = "MirroredVariable" /\ ~in_replica
      /\ update_replica_id # NoReplicaId /\ update_replica_id' = update_replica_id)
     => (/\ result'.op \in AssignOps /\ result'.status = "ok"
         /\ \A j \in Replicas : j # update_replica_id => values'[j] = values[j]
         /\ \E arg \in ConstArgs :
              values'[update_replica_id] = assign_on_device(result'.op, values[update_replica_id], arg.val)
         /\ merge_op' = NoOp
         /\ \A j \in Replicas : merge_args'[j] = NoArg)]_vars

C23_Witness ==
  /\ var_cls = "MirroredVariable" /\ aggregation = "NONE" /\ num_replicas = MaxReplicas
  /\ update_replica_id = 1 /\ result.op = "assign_sub" /\ result.status = "ok"
  /\ values[0] = 0 /\ values[1] = 0 - 1 /\ values[2] = 0

\* ---- C24: in a replica-context update of a MirroredVariable, the combined
\* value is applied to every element before any replica's call returns: while
\* a replica waits in the merge no call returns and no element changes, and
\* the step that returns the calls has given every element the combination of
\* the values the replicas passed, as they passed them.
SomeWaiting == \E i \in Replicas : merge_args[i] # NoArg

CombinedValue ==
  LET total == SumOf([i \in Replicas |-> merge_args[i].val], num_replicas)
  IN CASE aggregation = "ONLY_FIRST_REPLICA" -> merge_args[0].val
       [] aggregation = "SUM" -> total
       [] aggregation = "MEAN" -> DivideAndCast(total, num_replicas, dtype)

C24_CombinedValueAppliedBeforeReturn ==
  [][(var_cls = "MirroredVariable" /\ in_replica /\ SomeWaiting)
     => IF ~AllArrived
        THEN values' = values /\ result' = result
        ELSE /\ merge_op' = NoOp /\ result'.op = merge_op
             /\ result'.status = "ok" =>
                  \A i \in Replicas : values'[i] = assign_on_device(merge_op, values[i], CombinedValue)
             /\ result'.status # "ok" => values' = values]_vars

C24_Witness ==
  /\ var_cls = "MirroredVariable" /\ aggregation = "MEAN" /\ dtype = "float32"
  /\ num_replicas = 2 /\ in_replica /\ merge_op = NoOp
  /\ result.op = "assign" /\ result.status = "ok" /\ result.rid = NoReplicaId
  /\ values[0] = 2 /\ values[1] = 2

\* ---- C25: a checkpoint save of a SyncOnReadVariable between writes to its
\* elements persists the aggregate of the values the elements held when the
\* save read them, all read at one moment; a write made after that read
\* changes the elements and never the saved tensor.
AggregateOf(vals) ==
  CASE aggregation = "ONLY_FIRST_REPLICA" -> vals[0]
    [] aggregation = "SUM" -> SumOf(vals, num_replicas)
    [] aggregation = "MEAN" -> DivideAndCast(SumOf(vals, num_replicas), num_replicas, dtype)
    [] OTHER -> 0

MeanIntegerMerge ==
  /\ var_cls = "MirroredVariable" /\ aggregation = "MEAN" /\ ~IsFloating(dtype)
  /\ in_replica /\ AllArrived /\ merge_op' = NoOp

C26_MeanIntegerRejectsPerReplica ==
  [][MeanIntegerMerge =>
       /\ result'.status \in {"ok", "ValueError"}
       /\ result'.status = "ValueError" <=> \E i \in Replicas : merge_args[i].obj # merge_args[0].obj
       /\ result'.status = "ValueError" => values' = values]_vars

C26_Witness ==
  /\ var_cls = "MirroredVariable" /\ aggregation = "MEAN" /\ dtype = "int32"
  /\ num_replicas = MaxReplicas /\ in_replica /\ merge_op = NoOp
  /\ result.op = "assign_add" /\ result.status = "ValueError" /\ result.rid = NoReplicaId

\* C26 as stated: rejected exactly when the contributed values differ
C26_Original_MeanIntegerRejectsDifferingValues ==
  [][MeanIntegerMerge =>
       (result'.status # "ok" <=> \E i \in Replicas : merge_args[i].val # merge_args[0].val)]_vars

\* ---- C27 (as the code has it): outside a TPU context, get, device,
\* read_value, attribute forwarding and assign / assign_add / assign_sub of a
\* TPU variant give what the base class gives in the same context.  Three
\* operations differ: handle never fails (with no replica id it is the handle
\* of the closest element, where the base class raises ValueError); op is the
\* primary's DistributedVarOp in replica context too (the base class gives the
\* current replica's op); and the operand of an operator is read_value(), an
\* identity read under the strategy guard (the base class uses get()).
OperationCalled ==
  /\ IsTPUVariable(var_cls) /\ ~tpu_context /\ fn_result'.fn \in Operations
  /\ UNCHANGED <<strategy_scope, in_replica, update_replica_id, tpu_context>>
  /\ ~(in_replica /\ AllArrived)

BaseOutcome(name) ==
  DistributedVariable_operation(BaseOf(var_cls), name, fn_args'.arg, values, num_replicas, aggregation, dtype, strategy_scope, fn_args'.replica_context, update_replica_id, fn_args'.device)

SameAsBase(name) ==
  /\ fn_result'.status = BaseOutcome(name).status
  /\ fn_result'.value = BaseOutcome(name).value
  /\ fn_result'.status # "merge_call" => values' = BaseOutcome(name).values

C27_TPUVariantOutsideTPUContext ==
  [][OperationCalled =>
       CASE fn_result'.fn = "handle" ->
              /\ fn_result'.status = "ok"
              /\ fn_result'.value = Handle(get_closest(num_replicas, fn_args'.replica_context, update_replica_id, fn_args'.device))
              /\ BaseOutcome("handle").status = "ok" => SameAsBase("handle")
         [] fn_result'.fn = "op" ->
              /\ fn_result'.status = "ok" /\ fn_result'.value = <<"DistributedVarOp", 0>>
              /\ ~in_replica => SameAsBase("op")
         [] fn_result'.fn = "operand" -> SameAsBase("read_value")
         [] OTHER -> SameAsBase(fn_result'.fn)]_vars

C27_Witness ==
  /\ var_cls = "TPUMirroredVariable" /\ ~tpu_context /\ strategy_scope = "own"
  /\ ~in_replica /\ update_replica_id = NoReplicaId
  /\ fn_result.fn = "handle" /\ fn_result.status = "ok" /\ fn_args.device = 1
  /\ fn_result.value = Handle(1)

\* C27 as stated: every operation gives what the base class gives
C27_Original_EveryOperationSameAsBase ==
  [][OperationCalled => SameAsBase(fn_result'.fn)]_vars

\* ---- C28 (as the code has it): an assign, assign_add or assign_sub of an
\* AggregatingVariable chooses among direct application, strategy update and
\* merge as a MirroredVariable does in the same context, and rejects as it
\* does a call under another strategy (RuntimeError) and a replica-context call
\* with NONE aggregation (ValueError).  Its merge differs: it has no MEAN
\* check, so a merge with MEAN aggregation and a non-floating dtype is never
\* rejected, and the wrapped variable receives the combined value.
MirroredOutcome(op, arg, replica_context) ==
  MirroredVariable_assign_func(op, arg, [i \in Replicas |-> values[0]], aggregation, strategy_scope, replica_context, update_replica_id)

WrittenBy(out) == out.values[IF update_replica_id # NoReplicaId THEN update_replica_id ELSE 0]

AggregatingCrossReplicaCall ==
  /\ var_cls = "AggregatingVariable" /\ ~in_replica /\ result'.op \in AssignOps

AggregatingReplicaCall ==
  /\ var_cls = "AggregatingVariable" /\ in_replica /\ in_replica' /\ ~AllArrived
  /\ result'.op \in AssignOps \/ merge_args' # merge_args

AggregatingMerge ==
  /\ var_cls = "AggregatingVariable" /\ in_replica /\ AllArrived /\ merge_op' = NoOp

C28_AggregatingDispatchesAsMirroredButMergeUnchecked ==
  [][/\ AggregatingCrossReplicaCall =>
          \E arg \in ConstArgs :
            /\ result'.status = MirroredOutcome(result'.op, arg, NoReplicaId).status
            /\ values'[0] = WrittenBy(MirroredOutcome(result'.op, arg, NoReplicaId))
     /\ AggregatingReplicaCall =>
          /\ values' = values
          /\ \E i \in Replicas :
               IF merge_args' # merge_args
               THEN /\ merge_args'[i] # NoArg /\ merge_args[i] = NoArg /\ result' = result
                    /\ MirroredOutcome(merge_op', merge_args'[i], i).status = "merge_call"
               ELSE /\ result'.rid = i
                    /\ result'.status = MirroredOutcome(result'.op, NoArg, i).status
                    /\ result'.status = "ValueError" /\ aggregation = "NONE"
     /\ AggregatingMerge =>
          /\ result'.op = merge_op /\ result'.status = "ok"
          /\ values'[0] = assign_on_device(merge_op, values[0], CombinedValue)]_vars

C28_Witness ==
  /\ var_cls = "AggregatingVariable" /\ aggregation = "MEAN" /\ dtype = "int32"
  /\ num_replicas = 2 /\ in_replica /\ merge_op = NoOp
  /\ result.op = "assign_sub" /\ result.status = "ok" /\ result.rid = NoReplicaId
  /\ values[0] = -1

\* C28 as stated: the merge rejects what the merge of a MirroredVariable rejects
C28_Original_SameRejectionsAsMirrored ==
  [][AggregatingMerge =>
       result'.status = merge_fn(merge_op, merge_args, [i \in Replicas |-> values[0]], num_replicas, aggregation, dtype).status]_vars

\* ---- C29 (as the code has it): a SyncOnReadVariable read in the cross-replica
\* context of its strategy returns the primary element, unreduced, when the
\* aggregation is ONLY_FIRST_REPLICA; the sum of the N elements when it is SUM;
\* their mean, cast to the dtype, when it is MEAN; and raises ValueError when
\* it is NONE, which names no reduction.  The read modifies no element.
CrossReplicaRead ==
  /\ var_cls = "SyncOnReadVariable" /\ Idle /\ strategy_scope # "other"
  /\ result'.op = "get"

OnlyFirstReplicaAssign ==
  /\ var_cls = "MirroredVariable" /\ aggregation = "ONLY_FIRST_REPLICA"
  /\ in_replica /\ AllArrived /\ merge_op = "assign" /\ merge_op' = NoOp

C31_OnlyFirstReplicaBroadcastsFirstValue ==
  [][OnlyFirstReplicaAssign =>
       /\ result'.op = "assign" /\ result'.status = "ok"
       /\ \A i \in Replicas : values'[i] = merge_args[0].val]_vars

C31_Witness ==
  /\ var_cls = "MirroredVariable" /\ aggregation = "ONLY_FIRST_REPLICA"
  /\ num_replicas = MaxReplicas /\ in_replica /\ merge_op = NoOp
  /\ result.op = "assign" /\ result.status = "ok" /\ result.rid = NoReplicaId
  /\ \A i \in Replicas : values[i] = 2

\* ---- C32 (as the code has it): when select_replica_mirrored(i, s) does not
\* raise, its result is that of select_replica(i, s) at every leaf but the
\* MirroredVariable leaves: there select_replica_mirrored returns the
\* variable's element for replica i, and select_replica the variable itself.
\* On a structure with no distributed variable leaf the two results are equal.
SelectedMirrored == selected.op = "select_replica_mirrored" /\ selected.status = "ok"

PlainSelection == select_replica(selected.rid, regrouped.value)

C32_SelectMirroredSlicesVariablesToo ==
  SelectedMirrored =>
    \A p \in LeafPaths(regrouped.value) :
      LET x == At(regrouped.value, p)
      IN At(selected.value, p) = IF IsDistributedVariable(x.kind)
                                 THEN x.vals[selected.rid + 1]
                                 ELSE At(PlainSelection, p)

C32_Witness ==
  /\ SelectedMirrored /\ selected.rid = 1 /\ num_replicas = 2
  /\ \E x \in Leaves(regrouped.value) : x.kind = "MirroredVariable"
  /\ \E x \in Leaves(regrouped.value) : x.kind = "Mirrored"
  /\ \E x \in Leaves(selected.value) : x = Component(1)
  /\ selected.value # PlainSelection

\* C32 as stated: equal results whenever every distributed leaf is Mirrored
C32_Original_SameAsSelectReplicaOnMirrored ==
  (/\ selected.op = "select_replica_mirrored"
   /\ \A x \in Leaves(regrouped.value) : IsDistributedValues(x.kind) => IsMirrored(x.kind))
  => (selected.status = "ok" /\ selected.value = PlainSelection)

\* ---- C33: when the replicas' leaves are all elements of one live distributed
\* variable (one replica, or every replica passing the same element,
\* included), regroup returns that variable itself and wraps nothing; when
\* they are elements of different variables, or the variable of the first no
\* longer exists, regroup fails.
ElementLeaf(k) == IF IsNest(rg_values[k]) THEN rg_values[k].items[1] ELSE rg_values[k]

RegroupedLeaf == IF IsNest(regrouped.value) THEN regrouped.value.items[1] ELSE regrouped.value

ElementsRegrouped ==
  /\ regrouped # NoOutcome
  /\ \A k \in 1..num_replicas : has_distributed_container(ElementLeaf(k))

C33_ElementsRegroupToTheirVariable ==
  ElementsRegrouped =>
    IF \A k \in 1..num_replicas : ElementLeaf(k).container = ElementLeaf(1).container
    THEN CASE ElementLeaf(1).container = TheVariableId ->
                regrouped.status = "ok" /\ RegroupedLeaf = TheVariable
           [] ElementLeaf(1).container = OtherVariableId ->
                regrouped.status = "ok" /\ RegroupedLeaf = OtherVariable
           [] OTHER -> regrouped.status = "AssertionError"
    ELSE regrouped.status = "AssertionError"

C33_Witness ==
  /\ ElementsRegrouped /\ num_replicas = MaxReplicas /\ wrap_class = "PerReplica"
  /\ \A k \in 1..num_replicas : ElementLeaf(k) = ElementOf(OtherVariableId, k - 1)
  /\ regrouped.status = "ok" /\ regrouped.value = OtherVariable

\* ---- C34: where every replica passes the very same object as a leaf, and
\* the object is not an element of a distributed variable, regroup returns the
\* object itself in that place, wrapped in nothing, whatever the wrap_class.
SharedLeafAt(p) ==
  /\ \A k \in 1..num_replicas : At(rg_values[k], p) = At(rg_values[1], p)
  /\ ~has_distributed_container(At(rg_values[1], p))

C34_SharedObjectReturnedUnwrapped ==
  regrouped.status = "ok" =>
    \A p \in LeafPaths(rg_values[1]) :
      SharedLeafAt(p) => At(regrouped.value, p) = At(rg_values[1], p)

C34_Witness ==
  /\ regrouped.status = "ok" /\ num_replicas = MaxReplicas /\ wrap_class = "Mirrored"
  /\ \E p \in LeafPaths(rg_values[1]) :
       /\ SharedLeafAt(p) /\ At(rg_values[1], p) = Object(ConstObj(1))
       /\ At(regrouped.value, p) = Object(ConstObj(1))
  /\ \E x \in Leaves(regrouped.value) : x.kind = "Mirrored"

\* ---- C35: for every number of elements (one and two included) the op that
\* is_initialized returned evaluates to true exactly when the initializer of
\* every element has run, and it carries the name the caller passed.
C35_IsInitializedIsConjunctionOfAll ==
  fn_result.fn = "is_initialized" =>
    /\ fn_result.value.op = "LogicalAnd" /\ fn_result.value.name = fn_args.name
    /\ Evaluate(fn_result.value, completed) <=> (\A i \in Replicas : i \in completed)

C35_Witness ==
  /\ fn_result.fn = "is_initialized" /\ fn_args.name = "ready"
  /\ num_replicas = MaxReplicas /\ completed = Replicas \ {1}
  /\ ~Evaluate(fn_result.value, completed)

\* ---- C36: value_container(v) returns the distributed variable that owns v
\* for every element v of a live distributed variable; it returns v itself
\* once that variable has been destroyed, when v belongs to no variable, and
\* when v is a distributed variable.  Constructing a distributed variable
\* makes the back-reference of each of its elements refer to it.
ValueContainerCalled ==
  /\ fn_result'.fn = "value_container"
  /\ UNCHANGED <<var_cls, rg_values>>

VariableConstructed == var_cls = NoVariable /\ var_cls' # NoVariable

C36_ValueContainerFollowsBackReference ==
  [][/\ ValueContainerCalled =>
          LET v == fn_args'.val
          IN fn_result'.value = IF v.kind = "component" /\ v.container = TheVariableId /\ var_cls # NoVariable
                                THEN TheVariable
                                ELSE v
     /\ VariableConstructed =>
          \A i \in Replicas :
            LET element == ElementOf(TheVariableId, i)
            IN /\ rg_values'[i + 1] = element
               /\ TheVariable'.vals[i + 1] = element
               /\ value_container(element)' = TheVariable']_vars

C36_Witness ==
  /\ fn_result.fn = "value_container" /\ var_cls = NoVariable
  /\ num_replicas = MaxReplicas
  /\ fn_args.val = ElementOf(TheVariableId, 1)
  /\ fn_result.value = ElementOf(TheVariableId, 1)

\* ---- C37: every rejected assign, assign_add or assign_sub leaves every
\* element as it was: the cross-replica assign_add / assign_sub of a SUM
\* SyncOnReadVariable, the replica-context update with NONE aggregation, the
\* MEAN update of a non-floating variable with per-replica values, and any
\* call made under another strategy's scope raise before an element is written.
MutationRejected == result'.op \in AssignOps /\ result'.status # "ok"

C37_RejectedMutationWritesNothing ==
  [][MutationRejected =>
       /\ result'.status \in {"ValueError", "RuntimeError"}
       /\ values' = values]_vars

C37_Witness ==
  /\ var_cls = "SyncOnReadVariable" /\ aggregation = "SUM" /\ strategy_scope = "own"
  /\ ~in_replica /\ num_replicas = MaxReplicas
  /\ result.op = "assign_add" /\ result.status = "ValueError"
  /\ values[0] # values[1]

\* ---- C38: read_value, assign, assign_add and assign_sub leave the strategy
\* scope as they found it, whether they return or raise: with no scope active
\* before the call none is active after it, and the scope of the variable's
\* strategy (or of another) that was active is still the active one.
GuardedCallMade ==
  \/ result'.op \in AssignOps \cup {"read_value"}
  \/ merge_op' # NoOp /\ merge_args' # merge_args

C38_OperationLeavesScopeAsFound ==
  [][GuardedCallMade => strategy_scope' = strategy_scope]_vars

C38_Witness ==
  /\ var_cls = "SyncOnReadVariable" /\ aggregation = "SUM" /\ strategy_scope = "none"
  /\ fn_result.fn = "assign_add" /\ fn_result.status = "ValueError"
  /\ result.op = "assign_add" /\ result.status = "ValueError"

====
